---- MODULE Spec2Model ----
(***************************************************************************)
(* Tag index of vovere: the per-tag membership files kept by TagService    *)
(* (internal/app/services/tags.go), the item metadata kept by Repository   *)
(* (internal/app/services/repository.go) and the item handlers             *)
(* (internal/app/handlers/items.go).                                       *)
(*                                                                         *)
(* Three specifications share the state:                                     *)
(*   Spec          the item operations (SaveItem, UpdateContent, the       *)
(*                 updateContent and deleteItem handlers), every one       *)
(*                 completing without an I/O error, one at a time;         *)
(*   SpecReconcile direct calls of TagService.UpdateItemTags and           *)
(*                 GetItemsByTag on one TagService, where one file         *)
(*                 operation of a call may fail;                           *)
(*   SpecInterleave concurrent calls of TagService.UpdateItemTags on one   *)
(*                 TagService, interleaved step by step.                   *)
(***************************************************************************)
EXTENDS Integers, Sequences, FiniteSets, TLC

VARIABLES
    meta,      \* item -> metadata file .meta/<type>s/<id>.json (NoItem or its Tags)
    store,     \* tag  -> tag file .meta/tags/<tag>.json
    tagCache,  \* tag  -> cache entry of the long-lived TagService
    last,      \* history: the observed operation (NoCall while none is observed)
    heap,      \* backing array -> its elements (the slices of concurrent calls)
    calls,     \* concurrent call -> where it is in UpdateItemTags
    text,      \* the content handed to ExtractTags (empty where none is)
    cacheLock  \* s.cacheLock: its writer, its readers, the writers announced

vars == <<meta, store, tagCache, last, heap, calls, text, cacheLock>>

(***************************************************************************)
(* Bounds                                                                  *)
(***************************************************************************)
NumTags == 2          \* tag names in use
NumItems == 2         \* items in use
MaxWords == 1         \* longest content, in words

TagNames == <<"tag1", "tag2", "tag3", "tag4", "tag5">>
Tags == {TagNames[i] : i \in 1..NumTags}

\* Items share IDs across types: the ID alone does not identify an item.
ItemList ==
    << [id |-> "item1", type |-> "note"],
       [id |-> "item1", type |-> "task"],
       [id |-> "item2", type |-> "note"],
       [id |-> "item2", type |-> "task"] >>
Items == {ItemList[i] : i \in 1..NumItems}

(***************************************************************************)
(* Sequences                                                               *)
(***************************************************************************)
Range(s) == {s[i] : i \in 1..Len(s)}

NoDup(s) == \A i, j \in 1..Len(s) : s[i] = s[j] => i = j

\* contains(slice, str)
contains(slice, str) == \E i \in 1..Len(slice) : slice[i] = str

\* Duplicate-free lists over S of length at most n.
ListsOver(S, n) ==
    UNION {{s \in [1..k -> S] : NoDup(s)} : k \in 0..n}

\* The tag lists of items and calls: item.Tags and previousTags hold each tag
\* once, in any order.
TagLists == ListsOver(Tags, NumTags)

(***************************************************************************)
(* Item identifiers                                                        *)
(***************************************************************************)
\* fmt.Sprintf("%s:%s", item.ID, item.Type)
CombinedID(item) == <<item.id, ":", item.type>>

\* strings.Split(id, ":"): the parts between the separators.
RECURSIVE SplitColon(_)
SplitColon(s) ==
    IF \A i \in 1..Len(s) : s[i] # ":" THEN <<s>>
    ELSE LET k == CHOOSE i \in 1..Len(s) :
                      s[i] = ":" /\ \A j \in 1..(i - 1) : s[j] # ":"
         IN  <<SubSeq(s, 1, k - 1)>> \o SplitColon(SubSeq(s, k + 1, Len(s)))

(***************************************************************************)
(* Tag files                                                               *)
(***************************************************************************)
NoFile == [kind |-> "nofile"]
\* What a write that failed after truncating the file leaves: a proper prefix
\* of the JSON text, which never parses.
Truncated == [kind |-> "truncated"]

\* json.MarshalIndent(itemIDs, "", "  ")
Marshal(itemIDs) == [kind |-> "json", ids |-> itemIDs]

\* json.Unmarshal(data, &itemIDs)
Unmarshal(data) ==
    IF data.kind = "json" THEN [err |-> FALSE, ids |-> data.ids]
    ELSE [err |-> TRUE, ids |-> <<>>]

NotCached == [found |-> FALSE]
Cached(itemIDs) == [found |-> TRUE, ids |-> itemIDs]

\* sync.RWMutex, nobody holding it or waiting for it
Unlocked == [writer |-> 0, readers |-> {}, pending |-> {}]

\* make(map[string][]string)
EmptyCache == [t \in Tags |-> NotCached]

\* Outcome of the file operations of one tag operation:
\*   "ok"      every file operation succeeds
\*   "read"    os.ReadFile fails
\*   "write"   os.MkdirAll or os.WriteFile fails before the file is touched
\*   "partial" os.WriteFile fails after truncating the file
\*   "remove"  os.Remove fails, not with IsNotExist
IOOutcomes == {"ok", "read", "write", "partial", "remove"}
Failures == IOOutcomes \ {"ok"}

(***************************************************************************)
(* TagService.ExtractTags over content seen as its words: a word is a      *)
(* hashtag naming a tag or is plain text.                                  *)
(***************************************************************************)
PlainWord == [hash |-> FALSE, text |-> "text"]
HashWord(t) == [hash |-> TRUE, text |-> t]
Words == {PlainWord} \cup {HashWord(t) : t \in Tags}
Contents == UNION {[1..k -> Words] : k \in 0..MaxWords}

\* tagMap[tag] = true for every match
TagMap(content) == {content[i].text : i \in {j \in 1..Len(content) : content[j].hash}}

\* The keys of tagMap in the order the map iteration yields them: any order.
ExtractTags(content) == {tags \in TagLists : Range(tags) = TagMap(content)}

(***************************************************************************)
(* TagService, private helpers.  S is [store, cache]; an error is the      *)
(* message of the Go error, Nil for none.                                  *)
(***************************************************************************)
Nil == "nil"
ErrRead == "failed to read tag file"
ErrParse == "failed to parse tag file"
ErrWrite == "failed to write tag file"
ErrDelete == "failed to delete empty tag file"

ReadResult(itemIDs, e, ca) == [ids |-> itemIDs, err |-> e, cache |-> ca]

getItemIDsByTag_ParseErrorAsEmpty(S, tag, io) ==
    IF S.cache[tag].found THEN ReadResult(S.cache[tag].ids, Nil, S.cache)
    ELSE IF io # "read" /\ S.store[tag] = NoFile THEN ReadResult(<<>>, Nil, S.cache)
    ELSE IF io = "read" THEN ReadResult(<<>>, ErrRead, S.cache)
    ELSE IF Unmarshal(S.store[tag]).err THEN ReadResult(<<>>, Nil, S.cache)
    ELSE LET itemIDs == Unmarshal(S.store[tag]).ids
         IN  ReadResult(itemIDs, Nil, [S.cache EXCEPT ![tag] = Cached(itemIDs)])

getItemIDsByTag(S, tag, io) ==
    IF S.cache[tag].found THEN ReadResult(S.cache[tag].ids, Nil, S.cache)
    \* os.Stat says the file does not exist
    ELSE IF io # "read" /\ S.store[tag] = NoFile THEN ReadResult(<<>>, Nil, S.cache)
    ELSE IF io = "read" THEN ReadResult(<<>>, ErrRead, S.cache)
    ELSE IF Unmarshal(S.store[tag]).err THEN ReadResult(<<>>, ErrParse, S.cache)
    ELSE LET itemIDs == Unmarshal(S.store[tag]).ids
         IN  ReadResult(itemIDs, Nil, [S.cache EXCEPT ![tag] = Cached(itemIDs)])

\* The result of one tag operation: the state it leaves, its error, what it
\* did to the tag file ("none", "save", "delete", "partial") and the list it read.
OpResult(st, ca, e, w, rd) ==
    [store |-> st, cache |-> ca, err |-> e, wrote |-> w, read |-> rd]

saveTagFile_CacheOnly(S, tag, itemIDs, io) ==
    IF io = "write" THEN OpResult(S.store, S.cache, ErrWrite, "none", <<>>)
    ELSE IF io = "partial"
    THEN OpResult([S.store EXCEPT ![tag] = Truncated], S.cache, ErrWrite, "partial", <<>>)
    ELSE OpResult(S.store, [S.cache EXCEPT ![tag] = Cached(itemIDs)], Nil, "save", <<>>)

saveTagFile(S, tag, itemIDs, io) ==
    IF io = "write" THEN OpResult(S.store, S.cache, ErrWrite, "none", <<>>)
    ELSE IF io = "partial"
    THEN OpResult([S.store EXCEPT ![tag] = Truncated], S.cache, ErrWrite, "partial", <<>>)
    ELSE OpResult([S.store EXCEPT ![tag] = Marshal(itemIDs)],
                  [S.cache EXCEPT ![tag] = Cached(itemIDs)], Nil, "save", <<>>)

addItemToTag_NoMembershipCheck(S, itemID, tag, io) ==
    LET r == getItemIDsByTag(S, tag, io)
        S1 == [store |-> S.store, cache |-> r.cache]
    IN  IF r.err # Nil THEN OpResult(S.store, r.cache, r.err, "none", r.ids)
        ELSE [saveTagFile(S1, tag, Append(r.ids, itemID), io) EXCEPT !.read = r.ids]

addItemToTag_SkipsEmpty(S, itemID, tag, io) ==
    LET r == getItemIDsByTag(S, tag, io)
        S1 == [store |-> S.store, cache |-> r.cache]
    IN  IF r.err # Nil THEN OpResult(S.store, r.cache, r.err, "none", r.ids)
        ELSE IF Len(r.ids) = 0 \/ contains(r.ids, itemID)
        THEN OpResult(S.store, r.cache, Nil, "none", r.ids)
        ELSE [saveTagFile(S1, tag, Append(r.ids, itemID), io) EXCEPT !.read = r.ids]

\* the new member is put in front of the others (mutant)
addItemToTag_Prepends(S, itemID, tag, io) ==
    LET r == getItemIDsByTag(S, tag, io)
        S1 == [store |-> S.store, cache |-> r.cache]
    IN  IF r.err # Nil THEN OpResult(S.store, r.cache, r.err, "none", r.ids)
        ELSE IF contains(r.ids, itemID)
        THEN OpResult(S.store, r.cache, Nil, "none", r.ids)
        ELSE [saveTagFile(S1, tag, <<itemID>> \o r.ids, io) EXCEPT !.read = r.ids]

addItemToTag(S, itemID, tag, io) ==
    LET r == getItemIDsByTag(S, tag, io)
        S1 == [store |-> S.store, cache |-> r.cache]
    IN  IF r.err # Nil THEN OpResult(S.store, r.cache, r.err, "none", r.ids)
        ELSE IF contains(r.ids, itemID)
        THEN OpResult(S.store, r.cache, Nil, "none", r.ids)
        ELSE [saveTagFile(S1, tag, Append(r.ids, itemID), io) EXCEPT !.read = r.ids]

\* for _, id := range itemIDs { if id != itemID { append } }
Without(itemIDs, itemID) == SelectSeq(itemIDs, LAMBDA id : id # itemID)

removeItemFromTag(S, itemID, tag, io) ==
    LET r == getItemIDsByTag(S, tag, io)
        S1 == [store |-> S.store, cache |-> r.cache]
        newItemIDs == Without(r.ids, itemID)
    IN  IF r.err # Nil THEN OpResult(S.store, r.cache, r.err, "none", r.ids)
        ELSE IF Len(r.ids) = 0
        THEN OpResult(S.store, r.cache, Nil, "none", r.ids)
        ELSE IF Len(newItemIDs) = 0
        THEN IF io = "remove"
             THEN OpResult(S.store, r.cache, ErrDelete, "none", r.ids)
             ELSE OpResult([S.store EXCEPT ![tag] = NoFile],
                           [r.cache EXCEPT ![tag] = NotCached], Nil, "delete", r.ids)
        ELSE [saveTagFile(S1, tag, newItemIDs, io) EXCEPT !.read = r.ids]

(***************************************************************************)
(* TagService.UpdateItemTags                                               *)
(***************************************************************************)
RemovalsOf_None(previousTags, currentTags) == <<>>

\* The previous tags that are not current, in the order of previousTags.
RemovalsOf(previousTags, currentTags) ==
    SelectSeq(previousTags, LAMBDA oldTag : ~contains(currentTags, oldTag))

TagOp(k, t) == [kind |-> k, tag |-> t]

TagOps_AddsOnlyNewTags(previousTags, currentTags) ==
    LET rem == RemovalsOf(previousTags, currentTags)
        new == SelectSeq(currentTags, LAMBDA t : ~contains(previousTags, t))
    IN  [i \in 1..Len(rem) |-> TagOp("remove", rem[i])]
        \o [i \in 1..Len(new) |-> TagOp("add", new[i])]

\* the additions run before the removals (mutant)
TagOps_AdditionsFirst(previousTags, currentTags) ==
    LET rem == RemovalsOf(previousTags, currentTags)
    IN  [i \in 1..Len(currentTags) |-> TagOp("add", currentTags[i])]
        \o [i \in 1..Len(rem) |-> TagOp("remove", rem[i])]

\* The tag operations of a call in the order of its two loops: a removal per
\* previous tag that is not current, then an addition per current tag.
TagOps(previousTags, currentTags) ==
    LET rem == RemovalsOf(previousTags, currentTags)
    IN  [i \in 1..Len(rem) |-> TagOp("remove", rem[i])]
        \o [i \in 1..Len(currentTags) |-> TagOp("add", currentTags[i])]

\* A plan names the one tag operation of a call whose file operation fails
\* (at = 0: none) and how.
NoFailure == [at |-> 0, io |-> "ok"]
PlanIO(plan, i) == IF plan.at = i THEN plan.io ELSE "ok"

DoTagOp(S, combinedID, op, io) ==
    IF op.kind = "remove" THEN removeItemFromTag(S, combinedID, op.tag, io)
    ELSE addItemToTag(S, combinedID, op.tag, io)

LoopReturns_Never(err) == FALSE

\* if err := ...; err != nil { return err }
LoopReturns(err) == err # Nil

\* What the history keeps of one tag operation: the file it found and what it did.
LogEntry(op, before, r) ==
    [kind |-> op.kind, tag |-> op.tag, before |-> before,
     read |-> r.read, wrote |-> r.wrote, err |-> r.err]

RECURSIVE RunTagOps(_, _, _, _, _, _, _)
RunTagOps(S, combinedID, ops, i, plan, log, err) ==
    IF i > Len(ops)
    THEN [store |-> S.store, cache |-> S.cache, log |-> log, err |-> err]
    ELSE LET r == DoTagOp(S, combinedID, ops[i], PlanIO(plan, i))
             log1 == Append(log, LogEntry(ops[i], S.store[ops[i].tag], r))
             S1 == [store |-> r.store, cache |-> r.cache]
         IN  IF LoopReturns(r.err)
             THEN [store |-> r.store, cache |-> r.cache, log |-> log1, err |-> r.err]
             ELSE RunTagOps(S1, combinedID, ops, i + 1, plan, log1,
                            IF err = Nil THEN r.err ELSE err)

\* the cache is not replaced when the call is entered (mutant)
UpdateItemTags_KeepsCache(S, item, currentTags, previousTags, plan) ==
    RunTagOps([store |-> S.store, cache |-> S.cache], CombinedID(item),
              TagOps(previousTags, currentTags), 1, plan, <<>>, Nil)

\* UpdateItemTags(item, previousTags) with item.Tags = currentTags: the cache
\* is replaced by an empty one, then the two loops run.
UpdateItemTags(S, item, currentTags, previousTags, plan) ==
    RunTagOps([store |-> S.store, cache |-> EmptyCache], CombinedID(item),
              TagOps(previousTags, currentTags), 1, plan, <<>>, Nil)

(***************************************************************************)
(* Queries                                                                 *)
(***************************************************************************)
\* Repository.LoadItem succeeds when the metadata file exists.
NoItem == [exists |-> FALSE]
ItemMeta(tags) == [exists |-> TRUE, tags |-> tags]

Loadable(m, parts) ==
    /\ Len(parts) = 2
    /\ \E item \in Items : item.id = parts[1][1] /\ item.type = parts[2][1]
                             /\ Len(parts[1]) = 1 /\ Len(parts[2]) = 1
                             /\ m[item].exists

ItemOf(parts) == CHOOSE item \in Items : item.id = parts[1][1] /\ item.type = parts[2][1]

GetItemsByTag_ErrorOnUnresolved(S, m, tag, io) ==
    LET r == getItemIDsByTag(S, tag, io)
        ok == SelectSeq(r.ids, LAMBDA id : Loadable(m, SplitColon(id)))
    IN  [items |-> [i \in 1..Len(ok) |-> ItemOf(SplitColon(ok[i]))],
         err |-> IF r.err = Nil /\ Len(ok) < Len(r.ids) THEN "failed to open metadata file"
                 ELSE r.err,
         cache |-> r.cache]

GetItemsByTag(S, m, tag, io) ==
    LET r == getItemIDsByTag(S, tag, io)
        ok == SelectSeq(r.ids, LAMBDA id : Loadable(m, SplitColon(id)))
    IN  [items |-> [i \in 1..Len(ok) |-> ItemOf(SplitColon(ok[i]))],
         err |-> r.err, cache |-> r.cache]

\* The result of a query over several tags: the items, the error, the cache
\* and the tags whose membership was read, in order.
MultiResult(items, e, ca, reads) ==
    [items |-> items, err |-> e, cache |-> ca, reads |-> reads]

\* filteredItems: the items whose combined ID is in itemIDs
FilterItems(items, itemIDs) ==
    SelectSeq(items, LAMBDA item : contains(itemIDs, CombinedID(item)))

\* The loop of GetItemsByMultipleTags over tags[i..], items being the result so far.
RECURSIVE FilterByTags(_, _, _, _, _, _)
FilterByTags(S, tags, i, items, plan, reads) ==
    IF i > Len(tags) THEN MultiResult(items, Nil, S.cache, reads)
    ELSE LET r == getItemIDsByTag(S, tags[i], PlanIO(plan, i))
             filteredItems == FilterItems(items, r.ids)
             S1 == [store |-> S.store, cache |-> r.cache]
         IN  IF r.err # Nil
             THEN MultiResult(<<>>, r.err, r.cache, Append(reads, tags[i]))
             ELSE IF Len(filteredItems) = 0
             THEN MultiResult(filteredItems, Nil, r.cache, Append(reads, tags[i]))
             ELSE FilterByTags(S1, tags, i + 1, filteredItems, plan,
                               Append(reads, tags[i]))

GetItemsByMultipleTags_StopsWhenEmpty(S, m, tags, plan) ==
    IF Len(tags) = 0 THEN MultiResult(<<>>, Nil, S.cache, <<>>)
    ELSE LET first == GetItemsByTag(S, m, tags[1], PlanIO(plan, 1))
             S1 == [store |-> S.store, cache |-> first.cache]
         IN  IF first.err # Nil
             THEN MultiResult(<<>>, first.err, first.cache, <<tags[1]>>)
             ELSE IF Len(tags) = 1 \/ Len(first.items) = 0
             THEN MultiResult(first.items, Nil, first.cache, <<tags[1]>>)
             ELSE FilterByTags(S1, tags, 2, first.items, plan, <<tags[1]>>)

GetItemsByMultipleTags(S, m, tags, plan) ==
    IF Len(tags) = 0 THEN MultiResult(<<>>, Nil, S.cache, <<>>)
    ELSE LET first == GetItemsByTag(S, m, tags[1], PlanIO(plan, 1))
             S1 == [store |-> S.store, cache |-> first.cache]
         IN  IF first.err # Nil
             THEN MultiResult(<<>>, first.err, first.cache, <<tags[1]>>)
             ELSE IF Len(tags) = 1
             THEN MultiResult(first.items, Nil, first.cache, <<tags[1]>>)
             ELSE FilterByTags(S1, tags, 2, first.items, plan, <<tags[1]>>)

\* os.ReadDir of the tags directory: every <tag>.json, whatever it holds.
GetAllTags(st) == {t \in Tags : st[t] # NoFile}

\* The names os.ReadDir returns, sorted by file name.
TagsInOrder(tags) ==
    SelectSeq([i \in 1..NumTags |-> TagNames[i]], LAMBDA t : t \in tags)

StatsResult(stats, e, ca) == [stats |-> stats, err |-> e, cache |-> ca]

\* The value of a map for the keys it has.
NoStats == [t \in {} |-> 0]
WithStat(stats, tag, n) == [t \in DOMAIN stats \cup {tag} |-> IF t = tag THEN n ELSE stats[t]]

\* How many of the identifiers have the form id:type.
WellFormed(itemIDs) == Len(SelectSeq(itemIDs, LAMBDA id : Len(SplitColon(id)) = 2))

RECURSIVE CountTags(_, _, _, _, _)
CountTags(S, tags, i, plan, tagStats) ==
    IF i > Len(tags) THEN StatsResult(tagStats, Nil, S.cache)
    ELSE LET r == getItemIDsByTag(S, tags[i], PlanIO(plan, i))
         IN  IF r.err # Nil THEN StatsResult(NoStats, r.err, r.cache)
             ELSE CountTags([store |-> S.store, cache |-> r.cache], tags, i + 1, plan,
                            WithStat(tagStats, tags[i], Len(r.ids)))

RECURSIVE CountTags_WellFormed(_, _, _, _, _)
CountTags_WellFormed(S, tags, i, plan, tagStats) ==
    IF i > Len(tags) THEN StatsResult(tagStats, Nil, S.cache)
    ELSE LET r == getItemIDsByTag(S, tags[i], PlanIO(plan, i))
         IN  IF r.err # Nil THEN StatsResult(NoStats, r.err, r.cache)
             ELSE CountTags_WellFormed([store |-> S.store, cache |-> r.cache], tags,
                                       i + 1, plan,
                                       WithStat(tagStats, tags[i], WellFormed(r.ids)))

GetTagStatistics_CountsWellFormed(S, plan) ==
    CountTags_WellFormed(S, TagsInOrder(GetAllTags(S.store)), 1, plan, NoStats)

\* GetTagStatistics: len(itemIDs) for every tag GetAllTags lists.
GetTagStatistics(S, plan) ==
    CountTags(S, TagsInOrder(GetAllTags(S.store)), 1, plan, NoStats)

\* The characters of a tag name.
NameOf(tag) ==
    LET k == CHOOSE i \in 1..Len(TagNames) : TagNames[i] = tag
    IN  <<"t", "a", "g", <<"1", "2", "3", "4", "5">>[k]>>

\* strings.ToLower on one character of the names and prefixes in use.
ToLower(c) == IF c = "T" THEN "t" ELSE IF c = "A" THEN "a" ELSE IF c = "G" THEN "g" ELSE c

HasPrefix_FoldCase(str, prefix) ==
    /\ Len(prefix) <= Len(str)
    /\ \A i \in 1..Len(prefix) : ToLower(str[i]) = ToLower(prefix[i])

\* strings.HasPrefix(s, prefix)
HasPrefix(str, prefix) ==
    /\ Len(prefix) <= Len(str)
    /\ SubSeq(str, 1, Len(prefix)) = prefix

\* SearchTags(prefix)
SearchTags(st, prefix) ==
    LET allTags == TagsInOrder(GetAllTags(st))
    IN  IF prefix = <<>> THEN allTags
        ELSE SelectSeq(allTags, LAMBDA tag : HasPrefix(NameOf(tag), prefix))

(***************************************************************************)
(* History                                                                 *)
(***************************************************************************)
NoCall == [op |-> "none"]

Members(rec) == IF rec.kind = "json" THEN rec.ids ELSE <<>>

(***************************************************************************)
(* SpecReconcile: calls on one TagService over a repository whose items    *)
(* all exist.  An observed call ends the behaviour: whatever follows it is *)
(* reached from the same state left unobserved.                            *)
(***************************************************************************)
InitReconcile ==
    /\ meta = [item \in Items |-> ItemMeta(<<>>)]
    /\ store = [t \in Tags |-> NoFile]
    /\ tagCache = EmptyCache
    /\ last = NoCall
    /\ heap = <<>>
    /\ calls = <<>>
    /\ text = <<>>
    /\ cacheLock = Unlocked

Plans(ops) ==
    {NoFailure} \cup
    {[at |-> k, io |-> o] : k \in 1..Len(ops), o \in Failures}

Reconcile(item, previousTags, currentTags, plan) ==
    /\ last = NoCall
    /\ UNCHANGED <<text, cacheLock>>
    /\ \E r \in {UpdateItemTags([store |-> store, cache |-> tagCache], item,
                                currentTags, previousTags, plan)} :
        /\ store' = r.store
        /\ tagCache' = r.cache
        /\ last' \in {NoCall,
                      [op |-> "UpdateItemTags", item |-> item,
                       previousTags |-> previousTags, currentTags |-> currentTags,
                       pre |-> store, preCache |-> tagCache,
                       log |-> r.log, err |-> r.err]}
        /\ UNCHANGED <<meta, heap, calls>>

ReadTag(tag, io) ==
    /\ last = NoCall
    /\ UNCHANGED <<text, cacheLock>>
    /\ \E r \in {GetItemsByTag([store |-> store, cache |-> tagCache], meta, tag, io)} :
        /\ tagCache' = r.cache
        /\ last' \in {NoCall,
                      [op |-> "GetItemsByTag", tag |-> tag, io |-> io, pre |-> store,
                       preCache |-> tagCache, items |-> r.items, err |-> r.err]}
        /\ UNCHANGED <<meta, store, heap, calls>>

NextReconcile ==
    \/ \E item \in Items, previousTags \in TagLists, currentTags \in TagLists :
         \E plan \in Plans(TagOps(previousTags, currentTags)) :
             Reconcile(item, previousTags, currentTags, plan)
    \/ \E tag \in Tags, io \in {"ok", "read"} : ReadTag(tag, io)

SpecReconcile == InitReconcile /\ [][NextReconcile]_vars

(***************************************************************************)
(* Repository and the item handlers, every file operation succeeding.      *)
(* R is [meta, store]; the results are the new R.                          *)
(***************************************************************************)
\* the tags are taken from the content whenever there is content (mutant)
SaveItem_AlwaysExtracts(R, item, tags, content, extracted) ==
    LET previousTags == tags
        itemTags == IF content # <<>> THEN extracted ELSE tags
        r == UpdateItemTags([store |-> R.store, cache |-> EmptyCache], item,
                            itemTags, previousTags, NoFailure)
    IN  [meta |-> [R.meta EXCEPT ![item] = ItemMeta(itemTags)], store |-> r.store]

\* Repository.SaveItem(item, content), item.Tags = tags on entry; extracted
\* is what ExtractTags(content) returns if it is called.
SaveItem(R, item, tags, content, extracted) ==
    LET previousTags == tags
        itemTags == IF content # <<>> /\ Len(tags) = 0 THEN extracted ELSE tags
        r == UpdateItemTags([store |-> R.store, cache |-> EmptyCache], item,
                            itemTags, previousTags, NoFailure)
    IN  [meta |-> [R.meta EXCEPT ![item] = ItemMeta(itemTags)], store |-> r.store]

\* Repository.UpdateContent(item, content), item.Tags = tags on entry.
UpdateContent(R, item, tags, content, extracted) ==
    LET previousTags == tags
        r == UpdateItemTags([store |-> R.store, cache |-> EmptyCache], item,
                            extracted, previousTags, NoFailure)
    IN  SaveItem([meta |-> R.meta, store |-> r.store], item, extracted, <<>>, <<>>)

(***************************************************************************)
(* Spec: the item operations, one at a time.                               *)
(***************************************************************************)
Init ==
    /\ meta = [item \in Items |-> NoItem]
    /\ store = [t \in Tags |-> NoFile]
    /\ tagCache = EmptyCache
    /\ last = NoCall
    /\ heap = <<>>
    /\ calls = <<>>
    /\ text = <<>>
    /\ cacheLock = Unlocked

\* What the history keeps of an item operation: its arguments and the state
\* it started from.
Observed(op, item, tags, content) ==
    [op |-> op, item |-> item, tags |-> tags, content |-> content,
     pre |-> store, preMeta |-> meta[item]]

\* A caller saves an item with the tag list and content of its choice.
RepoSaveItem(item, tags, content) ==
    /\ last = NoCall
    /\ UNCHANGED <<text, cacheLock>>
    /\ \E extracted \in ExtractTags(content) :
         \E R \in {SaveItem([meta |-> meta, store |-> store], item, tags, content,
                            extracted)} :
           /\ meta' = R.meta
           /\ store' = R.store
           /\ last' \in {NoCall, Observed("SaveItem", item, tags, content)}
           /\ UNCHANGED <<tagCache, heap, calls>>

\* A caller loads an item and updates its content.
RepoUpdateContent(item, content) ==
    /\ last = NoCall
    /\ UNCHANGED <<text, cacheLock>>
    /\ meta[item].exists
    /\ \E extracted \in ExtractTags(content) :
         \E R \in {UpdateContent([meta |-> meta, store |-> store], item,
                                 meta[item].tags, content, extracted)} :
           /\ meta' = R.meta
           /\ store' = R.store
           /\ last' \in {NoCall, Observed("UpdateContent", item, meta[item].tags, content)}
           /\ UNCHANGED <<tagCache, heap, calls>>

\* ItemHandler.updateContent(item, content): one result per order in which the
\* two ExtractTags calls list the tags and per title, which says whether the
\* title is taken from the content and the metadata saved once more.
updateContent(R, cache, item, content, extractedTags, again, title) ==
    LET previousTags == R.meta[item].tags
        touch == Len(extractedTags) > 0 \/ Len(previousTags) > 0
        itemTags == IF touch THEN extractedTags ELSE previousTags
        r == UpdateItemTags([store |-> R.store, cache |-> cache], item,
                            itemTags, previousTags, NoFailure)
        R0 == [meta |-> R.meta, store |-> IF touch THEN r.store ELSE R.store]
        R1 == IF title THEN SaveItem(R0, item, itemTags, <<>>, <<>>) ELSE R0
        R2 == SaveItem(R1, item, itemTags, content, again)
    IN  [meta |-> R2.meta, store |-> R2.store,
         cache |-> IF touch THEN r.cache ELSE cache]

HandlerUpdateContent(item, content) ==
    /\ last = NoCall
    /\ UNCHANGED <<text, cacheLock>>
    /\ meta[item].exists
    /\ \E extractedTags \in ExtractTags(content), again \in ExtractTags(content),
          title \in BOOLEAN :
         \E H \in {updateContent([meta |-> meta, store |-> store], tagCache, item,
                                 content, extractedTags, again, title)} :
           /\ meta' = H.meta
           /\ store' = H.store
           /\ tagCache' = H.cache
           /\ last' \in {NoCall, Observed("updateContent", item, meta[item].tags, content)}
           /\ UNCHANGED <<heap, calls>>

deleteItem_KeepsMetadata(R, cache, item) ==
    LET previousTags == R.meta[item].tags
        r == UpdateItemTags([store |-> R.store, cache |-> cache], item,
                            <<>>, previousTags, NoFailure)
    IN  [meta |-> [R.meta EXCEPT ![item] = ItemMeta(<<>>)], store |-> r.store,
         cache |-> r.cache]

\* ItemHandler.deleteItem(item)
deleteItem(R, cache, item) ==
    LET previousTags == R.meta[item].tags
        r == UpdateItemTags([store |-> R.store, cache |-> cache], item,
                            <<>>, previousTags, NoFailure)
    IN  [meta |-> [R.meta EXCEPT ![item] = NoItem], store |-> r.store, cache |-> r.cache]

HandlerDeleteItem(item) ==
    /\ last = NoCall
    /\ UNCHANGED <<text, cacheLock>>
    /\ meta[item].exists
    /\ \E H \in {deleteItem([meta |-> meta, store |-> store], tagCache, item)} :
         /\ meta' = H.meta
         /\ store' = H.store
         /\ tagCache' = H.cache
         /\ last' \in {NoCall, Observed("deleteItem", item, meta[item].tags, <<>>)}
         /\ UNCHANGED <<heap, calls>>

\* An observed operation ends the behaviour: whatever follows it is reached
\* from the same state left unobserved.
Next ==
    \/ \E item \in Items, tags \in TagLists, content \in Contents :
         RepoSaveItem(item, tags, content)
    \/ \E item \in Items, content \in Contents : RepoUpdateContent(item, content)
    \/ \E item \in Items, content \in Contents : HandlerUpdateContent(item, content)
    \/ \E item \in Items : HandlerDeleteItem(item)

Spec == Init /\ [][Next]_vars

(***************************************************************************)
(***************************************************************************)
(***************************************************************************)
(* SpecFrame: one UpdateItemTags call at a time on an index whose records  *)
(* already hold other members, in any order.                               *)
(***************************************************************************)
NumOthers == 1        \* members of the records that are no item of the calls
MaxFrameLen == 3      \* most members a record holds at the start

\* The identifiers the records hold at the start: those of the items and
\* those of other items, added by earlier calls.
OtherIDs == << <<"item3", ":", "note">>, <<"item4", ":", "note">>, <<"item5", ":", "note">> >>
FrameIDs == {CombinedID(item) : item \in Items} \cup {OtherIDs[i] : i \in 1..NumOthers}

\* A tag has no file, or a file with a list that addItemToTag built: each
\* identifier once, in the order of the additions.
FrameRecords == {NoFile} \cup {Marshal(l) : l \in ListsOver(FrameIDs, MaxFrameLen) \ {<<>>}}

InitFrame ==
    /\ meta = [item \in Items |-> ItemMeta(<<>>)]
    /\ store \in [Tags -> FrameRecords]
    /\ tagCache = EmptyCache
    /\ last = NoCall
    /\ heap = <<>>
    /\ calls = <<>>
    /\ text = <<>>
    /\ cacheLock = Unlocked

NextFrame ==
    \E item \in Items, previousTags \in TagLists, currentTags \in TagLists :
        \E plan \in Plans(TagOps(previousTags, currentTags)) :
            Reconcile(item, previousTags, currentTags, plan)

SpecFrame == InitFrame /\ [][NextFrame]_vars

(* SpecInstances: the item operations of Spec together with the reads of   *)
(* the handler's own TagService.  tagCache is the cache of the handler's   *)
(* TagService, which lives as long as the handler; Repository.SaveItem and *)
(* Repository.UpdateContent work through a TagService of their own, made   *)
(* for the call and dropped with its cache when the call returns.          *)
(***************************************************************************)
\* What the history keeps of a read: the tag, the list getItemIDsByTag
\* returned and the repository call that completed just before it.
ObservedRead(tag, itemIDs) ==
    [op |-> "listItemsByTag", tag |-> tag, ids |-> itemIDs, after |-> last.op,
     item |-> last.item]

\* ItemHandler.listItemsByTag(tag): h.tagService.GetItemsByTag(tag), issued
\* at any time, or right after an observed Repository.SaveItem or
\* Repository.UpdateContent has returned.
HandlerListItemsByTag(tag) ==
    /\ last.op \in {"none", "SaveItem", "UpdateContent"}
    /\ \E r \in {getItemIDsByTag([store |-> store, cache |-> tagCache], tag, "ok")} :
         \E G \in {GetItemsByTag([store |-> store, cache |-> tagCache], meta, tag, "ok")} :
           /\ tagCache' = G.cache
           /\ last' = IF last = NoCall THEN NoCall ELSE ObservedRead(tag, r.ids)
    /\ UNCHANGED <<meta, store, heap, calls, text, cacheLock>>

NextInstances ==
    \/ \E item \in Items, tags \in TagLists, content \in Contents :
         RepoSaveItem(item, tags, content)
    \/ \E item \in Items, content \in Contents : RepoUpdateContent(item, content)
    \/ \E item \in Items, content \in Contents : HandlerUpdateContent(item, content)
    \/ \E item \in Items : HandlerDeleteItem(item)
    \/ \E tag \in Tags : HandlerListItemsByTag(tag)

SpecInstances == Init /\ [][NextInstances]_vars

(* SpecInterleave: UpdateItemTags calls running concurrently on one        *)
(* TagService, as the handlers of concurrent requests run them on          *)
(* h.tagService.  The lists are Go slices: a slice is a backing array and  *)
(* a length, the cache hands the same backing array to every call that     *)
(* hits it, and append writes into the backing array when it has room.     *)
(* A step is one of: the cache reset that opens a call, getItemIDsByTag    *)
(* with the membership test, append, the filtering of a removal, and       *)
(* saveTagFile.  File operations succeed.                                  *)
(***************************************************************************)
NumCalls == 3         \* concurrent calls
NumSharedTags == 1    \* tags the concurrent calls work on
MaxSeeds == 3         \* most members a record holds at the start

Procs == 1..NumCalls
SharedTags == {TagNames[i] : i \in 1..NumSharedTags}
SharedTagLists == ListsOver(SharedTags, NumSharedTags)

\* Identifiers of items other than the ones the calls are for.
SeedIDs ==
    << <<"seed1", ":", "note">>, <<"seed2", ":", "note">>, <<"seed3", ":", "note">>,
       <<"seed4", ":", "note">>, <<"seed5", ":", "note">> >>

NoArray == <<0, 0>>
\* []string{}
EmptySlice == [arr |-> NoArray, len |-> 0]

Cap(h, slice) == IF slice.arr = NoArray THEN 0 ELSE Len(h[slice.arr])

\* The elements of a slice as the backing array holds them now.
Elems(h, slice) ==
    IF slice.arr = NoArray THEN <<>> ELSE SubSeq(h[slice.arr], 1, slice.len)

\* The zero value of the unused part of a backing array.
ZeroString == <<>>
NewArray(elems, cap) ==
    [i \in 1..cap |-> IF i <= Len(elems) THEN elems[i] ELSE ZeroString]

\* The capacity json.Unmarshal gives a slice of n elements: grown like append
\* (1, 2, 4, 8, ...) by the decoder of Go 1.20 and later, at least 4 and
\* grown by half by the decoders before.
RECURSIVE GrowDouble(_, _)
GrowDouble(cap, n) == IF cap >= n THEN cap ELSE GrowDouble(IF cap = 0 THEN 1 ELSE 2 * cap, n)
RECURSIVE GrowHalf(_, _)
GrowHalf(cap, n) == IF cap >= n THEN cap ELSE GrowHalf(cap + cap \div 2, n)
DecodeCaps(n) == IF n = 0 THEN {0} ELSE {GrowDouble(0, n), GrowHalf(4, n)}

Idle == [pc |-> "idle"]
Done == [pc |-> "done"]

\* The call moves on to its next tag operation or returns.
NextOp(c) ==
    IF c.i + 1 > Len(c.ops) THEN Done
    ELSE [c EXCEPT !.i = c.i + 1, !.pc = "get", !.slice = EmptySlice]

InitInterleave ==
    /\ meta = [item \in Items |-> ItemMeta(<<>>)]
    /\ store \in {st \in [Tags -> {NoFile} \cup {Marshal(SubSeq(SeedIDs, 1, n)) : n \in 1..MaxSeeds}] :
                     \A t \in Tags \ SharedTags : st[t] = NoFile}
    /\ tagCache = EmptyCache
    /\ last = NoCall
    /\ heap = <<>>
    /\ calls = [p \in Procs |-> Idle]
    /\ text = <<>>
    /\ cacheLock = Unlocked

\* UpdateItemTags is entered: the cache is replaced by an empty one.
Begin(p, item, previousTags, currentTags) ==
    /\ calls[p].pc = "idle"
    /\ UNCHANGED <<text, cacheLock>>
    /\ tagCache' = EmptyCache
    /\ calls' = [calls EXCEPT ![p] =
                    IF TagOps(previousTags, currentTags) = <<>> THEN Done
                    ELSE [pc |-> "get", id |-> CombinedID(item),
                          ops |-> TagOps(previousTags, currentTags), i |-> 1,
                          slice |-> EmptySlice, allocs |-> 0]]
    /\ UNCHANGED <<meta, store, last, heap>>

\* The continuation of addItemToTag / removeItemFromTag once the list is read.
AfterGet(c, h, slice) ==
    IF c.ops[c.i].kind = "add"
    THEN IF contains(Elems(h, slice), c.id) THEN NextOp(c)
         ELSE [c EXCEPT !.pc = "append", !.slice = slice]
    ELSE IF slice.len = 0 THEN NextOp(c)
         ELSE [c EXCEPT !.pc = "filter", !.slice = slice]

\* getItemIDsByTag: the cached slice, or the file decoded into a new backing
\* array that the cache then holds.
Get(p) ==
    LET c == calls[p]
        tag == c.ops[c.i].tag
    IN  /\ c.pc = "get"
        /\ UNCHANGED <<text, cacheLock>>
        /\ IF tagCache[tag].found
           THEN /\ calls' = [calls EXCEPT ![p] = AfterGet(c, heap, tagCache[tag].ids)]
                /\ UNCHANGED <<tagCache, heap>>
           ELSE IF store[tag] = NoFile
           THEN /\ calls' = [calls EXCEPT ![p] = AfterGet(c, heap, EmptySlice)]
                /\ UNCHANGED <<tagCache, heap>>
           ELSE \E cap \in DecodeCaps(Len(Unmarshal(store[tag]).ids)) :
                  LET arr == <<p, c.allocs + 1>>
                      slice == [arr |-> arr, len |-> Len(Unmarshal(store[tag]).ids)]
                      h == (arr :> NewArray(Unmarshal(store[tag]).ids, cap)) @@ heap
                      c1 == [c EXCEPT !.allocs = c.allocs + 1]
                  IN  /\ heap' = h
                      /\ tagCache' = [tagCache EXCEPT ![tag] = Cached(slice)]
                      /\ calls' = [calls EXCEPT ![p] = AfterGet(c1, h, slice)]
        /\ UNCHANGED <<meta, store, last>>

\* itemIDs = append(itemIDs, itemID)
GoAppend(p) ==
    LET c == calls[p]
    IN  /\ c.pc = "append"
        /\ UNCHANGED <<text, cacheLock>>
        /\ IF c.slice.len < Cap(heap, c.slice)
           THEN /\ heap' = [heap EXCEPT ![c.slice.arr][c.slice.len + 1] = c.id]
                /\ calls' = [calls EXCEPT ![p] =
                                [c EXCEPT !.pc = "save", !.slice.len = c.slice.len + 1]]
           ELSE LET arr == <<p, c.allocs + 1>>
                    elems == Append(Elems(heap, c.slice), c.id)
                IN  /\ heap' = (arr :> NewArray(elems, GrowDouble(Cap(heap, c.slice),
                                                                 Len(elems)))) @@ heap
                    /\ calls' = [calls EXCEPT ![p] =
                                    [c EXCEPT !.pc = "save", !.allocs = c.allocs + 1,
                                              !.slice = [arr |-> arr, len |-> Len(elems)]]]
        /\ UNCHANGED <<meta, store, tagCache, last>>

\* removeItemFromTag after the read: newItemIDs in an array of its own; the
\* file and the cache entry are deleted when it is empty.
Filter(p) ==
    LET c == calls[p]
        tag == c.ops[c.i].tag
        newItemIDs == Without(Elems(heap, c.slice), c.id)
        arr == <<p, c.allocs + 1>>
    IN  /\ c.pc = "filter"
        /\ UNCHANGED <<text, cacheLock>>
        /\ IF Len(newItemIDs) = 0
           THEN /\ store' = [store EXCEPT ![tag] = NoFile]
                /\ tagCache' = [tagCache EXCEPT ![tag] = NotCached]
                /\ calls' = [calls EXCEPT ![p] = NextOp(c)]
                /\ UNCHANGED heap
           ELSE /\ heap' = (arr :> NewArray(newItemIDs, c.slice.len)) @@ heap
                /\ calls' = [calls EXCEPT ![p] =
                                [c EXCEPT !.pc = "save", !.allocs = c.allocs + 1,
                                          !.slice = [arr |-> arr, len |-> Len(newItemIDs)]]]
                /\ UNCHANGED <<store, tagCache>>
        /\ UNCHANGED <<meta, last>>

\* saveTagFile: the slice as it is now is written and cached.
Save(p) ==
    LET c == calls[p]
        tag == c.ops[c.i].tag
    IN  /\ c.pc = "save"
        /\ UNCHANGED <<text, cacheLock>>
        /\ store' = [store EXCEPT ![tag] = Marshal(Elems(heap, c.slice))]
        /\ tagCache' = [tagCache EXCEPT ![tag] = Cached(c.slice)]
        /\ calls' = [calls EXCEPT ![p] = NextOp(c)]
        /\ UNCHANGED <<meta, last, heap>>

NextInterleave ==
    \/ \E p \in Procs, item \in Items, previousTags \in SharedTagLists,
          currentTags \in SharedTagLists :
         Begin(p, item, previousTags, currentTags)
    \/ \E p \in Procs : Get(p)
    \/ \E p \in Procs : GoAppend(p)
    \/ \E p \in Procs : Filter(p)
    \/ \E p \in Procs : Save(p)

SpecInterleave == InitInterleave /\ [][NextInterleave]_vars

(***************************************************************************)
(* SpecQuery: the tag queries on one TagService over an index that holds   *)
(* identifiers of existing items, of deleted items and of items whose type *)
(* has a colon in it (the type is a path segment of the request, taken as  *)
(* it comes).                                                              *)
(***************************************************************************)
MaxRecordLen == 2     \* most members of a record the queries read

\* "item1:no:te", the identifier of item1 of type "no:te".
MalformedID == <<"item1", ":", "no", ":", "te">>
\* The identifier of an item that was deleted.
GoneID == <<"item9", ":", "note">>
QueryIDs == {CombinedID(item) : item \in Items} \cup {MalformedID, GoneID}

Records ==
    {NoFile, Truncated}
    \cup {Marshal(l) : l \in ListsOver(QueryIDs, MaxRecordLen) \ {<<>>}}

InitQuery ==
    /\ meta \in [Items -> {NoItem, ItemMeta(<<>>)}]
    /\ store \in [Tags -> Records]
    /\ tagCache = EmptyCache
    /\ last = NoCall
    /\ heap = <<>>
    /\ calls = <<>>
    /\ text = <<>>
    /\ cacheLock = Unlocked

MaxQueryTags == 3     \* most tags in one query

\* The tag lists of a query: any tags, repeated or not.
QueryTagLists == UNION {[1..k -> Tags] : k \in 0..MaxQueryTags}

\* A query reads without failure or its k-th membership read fails.
ReadPlans(n) == {NoFailure} \cup {[at |-> k, io |-> "read"] : k \in 1..n}

ReadByMultipleTags(tags, plan) ==
    /\ last = NoCall
    /\ UNCHANGED <<text, cacheLock>>
    /\ \E r \in {GetItemsByMultipleTags([store |-> store, cache |-> tagCache], meta,
                                        tags, plan)} :
        /\ tagCache' = r.cache
        /\ last' \in {NoCall,
                      [op |-> "GetItemsByMultipleTags", tags |-> tags, plan |-> plan,
                       pre |-> store, preCache |-> tagCache, items |-> r.items,
                       err |-> r.err, reads |-> r.reads]}
        /\ UNCHANGED <<meta, store, heap, calls>>

ReadStatistics(plan) ==
    /\ last = NoCall
    /\ UNCHANGED <<text, cacheLock>>
    /\ \E r \in {GetTagStatistics([store |-> store, cache |-> tagCache], plan)} :
        /\ tagCache' = r.cache
        /\ last' \in {NoCall,
                      [op |-> "GetTagStatistics", plan |-> plan, pre |-> store,
                       preCache |-> tagCache, stats |-> r.stats, err |-> r.err]}
        /\ UNCHANGED <<meta, store, heap, calls>>

\* The prefixes searched for.
SearchPrefixes ==
    { <<>>, <<"t">>, <<"t", "a", "g">>, <<"t", "a", "g", "1">>, <<"t", "a", "g", "2">>,
      <<"T">>, <<"T", "a", "g", "1">>, <<"t", "a", "g", "1", "0">>, <<"a", "g">>, <<"x">> }

\* A search changes nothing: it is always observed.
Search(prefix) ==
    /\ last = NoCall
    /\ UNCHANGED <<text, cacheLock>>
    /\ last' = [op |-> "SearchTags", prefix |-> prefix, pre |-> store,
                tags |-> SearchTags(store, prefix), err |-> Nil]
    /\ UNCHANGED <<meta, store, tagCache, heap, calls>>

NextQuery ==
    \/ \E tag \in Tags, io \in {"ok", "read"} : ReadTag(tag, io)
    \/ \E plan \in ReadPlans(NumTags) : ReadStatistics(plan)
    \/ \E prefix \in SearchPrefixes : Search(prefix)
    \/ \E tags \in QueryTagLists :
         \E plan \in ReadPlans(Len(tags)) : ReadByMultipleTags(tags, plan)

SpecQuery == InitQuery /\ [][NextQuery]_vars

(***************************************************************************)
(* SpecExtract: ExtractTags on a text, one character at a time.  A text is *)
(* the sequence of its characters; the regular expression is matched the   *)
(* way Go's regexp package matches it: leftmost match first, and among the *)
(* matches at one start the one a backtracking search finds first.         *)
(***************************************************************************)
MaxChars == 5         \* length of the enumerated texts

Lower == {"a", "b", "c", "d", "e", "f", "g", "h", "i", "j", "k", "l", "m",
          "n", "o", "p", "q", "r", "s", "t", "u", "v", "w", "x", "y", "z"}
Upper == {"A", "B", "C", "D", "E", "F", "G", "H", "I", "J", "K", "L", "M",
          "N", "O", "P", "Q", "R", "S", "T", "U", "V", "W", "X", "Y", "Z"}
Digits == {"0", "1", "2", "3", "4", "5", "6", "7", "8", "9"}

\* \s of the regular expression
IsSpace(c) == c \in {" ", "\t", "\n", "\f", "\r"}

\* [^\s,.;!?] : every character but whitespace and the five stop characters
InBody(c) == ~IsSpace(c) /\ c \notin {",", ".", ";", "!", "?"}

\* [.:] between two runs (mutant: only the colon)
IsSeparator_ColonOnly(c) == c = ":"

\* [.:] between two runs
IsSeparator(c) == c \in {".", ":"}

\* a word character of \b: ASCII letter, digit or underscore
IsWordChar(c) == c \in Lower \cup Upper \cup Digits \cup {"_"}

\* \b dropped (mutant): the match may end anywhere
WordBoundary_Anywhere(s, k) == TRUE

\* \b before position k: exactly one of s[k-1], s[k] is a word character
WordBoundary(s, k) ==
    (k > 1 /\ IsWordChar(s[k - 1])) # (k <= Len(s) /\ IsWordChar(s[k]))

\* where the longest run of [^\s,.;!?] that starts at position i ends
RECURSIVE RunEnd(_, _)
RunEnd(s, i) == IF i <= Len(s) /\ InBody(s[i]) THEN RunEnd(s, i + 1) ELSE i

\* [^\s,.;!?]+ read from i up to k, longest first, then (?:[.:][^\s,.;!?]+)*
\* entered before it is left, then \b: the end of the match, 0 if none
RECURSIVE MatchRun(_, _, _), MatchRest(_, _)
MatchRun(s, i, k) ==
    IF k <= i THEN 0
    ELSE LET end == MatchRest(s, k)
         IN  IF end # 0 THEN end ELSE MatchRun(s, i, k - 1)

MatchRest(s, k) ==
    LET more == IF k <= Len(s) /\ IsSeparator(s[k])
                THEN MatchRun(s, k + 1, RunEnd(s, k + 1))
                ELSE 0
    IN  IF more # 0 THEN more
        ELSE IF WordBoundary(s, k) THEN k ELSE 0

\* the capture group from position i
MatchBody(s, i) == MatchRun(s, i, RunEnd(s, i))

NoMatch == [body |-> 0, end |-> 0]

\* (?:^|\s)# accepts every '#' (mutant)
MatchAt_AnyHash(s, p) ==
    IF s[p] = "#" /\ MatchBody(s, p + 1) # 0
    THEN [body |-> p + 1, end |-> MatchBody(s, p + 1)]
    ELSE NoMatch

\* the whole expression tried at position p: ^ before \s
MatchAt(s, p) ==
    IF p = 1 /\ s[p] = "#" /\ MatchBody(s, p + 1) # 0
    THEN [body |-> p + 1, end |-> MatchBody(s, p + 1)]
    ELSE IF IsSpace(s[p]) /\ p + 1 <= Len(s) /\ s[p + 1] = "#"
            /\ MatchBody(s, p + 2) # 0
         THEN [body |-> p + 2, end |-> MatchBody(s, p + 2)]
         ELSE NoMatch

\* re.FindAllStringSubmatch(content, -1): the captures of the successive
\* non-overlapping matches, searching on from the end of each match
RECURSIVE FindAllFrom(_, _)
FindAllFrom(s, p) ==
    IF p > Len(s) THEN <<>>
    ELSE LET m == MatchAt(s, p)
         IN  IF m = NoMatch THEN FindAllFrom(s, p + 1)
             ELSE <<SubSeq(s, m.body, m.end - 1)>> \o FindAllFrom(s, m.end)

FindAllStringSubmatch(content) == FindAllFrom(content, 1)

\* strings.TrimRight(tag, ".:")
RECURSIVE TrimRight(_, _)
TrimRight(tag, cutset) ==
    IF tag # <<>> /\ tag[Len(tag)] \in cutset
    THEN TrimRight(SubSeq(tag, 1, Len(tag) - 1), cutset)
    ELSE tag

\* tagMap after the loop over the matches: empty tags are skipped
TagMapOf(matches) ==
    {TrimRight(matches[i], {".", ":"}) : i \in 1..Len(matches)} \ {<<>>}

\* the keys of a map in the order its iteration yields them: any order
MapKeys(tagMap) ==
    {tags \in [1..Cardinality(tagMap) -> tagMap] : Range(tags) = tagMap}

\* the matches appended to the result without the map (mutant)
ExtractTagsFrom_NoMap(content) ==
    {[i \in 1..Len(FindAllStringSubmatch(content)) |->
         TrimRight(FindAllStringSubmatch(content)[i], {".", ":"})]}

\* ExtractTags on the characters of the content
ExtractTagsFrom(content) == MapKeys(TagMapOf(FindAllStringSubmatch(content)))

\* one character of each kind the expression tells apart
Chars == {"a", "A", "_", "-", "/", ".", ":", "!", "#", " "}
BoundedTexts == UNION {[1..n -> Chars] : n \in 0..MaxChars}

\* the contents of TestExtractTags
TestContents ==
    { <<"T", "h", "i", "s", " ", "i", "s", " ", "a", " ", "#", "t", "e", "s", "t", " ", "w", "i", "t", "h", " ", "#", "s", "i", "m", "p", "l", "e", " ", "t", "a", "g", "s">>,
      <<"T", "e", "s", "t", "i", "n", "g", " ", "#", "t", "a", "g", ".", "w", "i", "t", "h", ".", "d", "o", "t", "s", " ", "a", "n", "d", " ", "#", "t", "a", "g", "_", "w", "i", "t", "h", "_", "u", "n", "d", "e", "r", "s", "c", "o", "r", "e", "s">>,
      <<"T", "e", "s", "t", "i", "n", "g", " ", "#", "n", "a", "m", "e", "s", "p", "a", "c", "e", ":", "n", "a", "m", "e", " ", "a", "n", "d", " ", "#", "p", "r", "o", "j", "e", "c", "t", ":", "t", "a", "s", "k", ":", "s", "u", "b", "t", "a", "s", "k">>,
      <<"C", "o", "m", "p", "l", "e", "x", " ", "#", "t", "a", "g", "-", "w", "i", "t", "h", "-", "h", "y", "p", "h", "e", "n", "s", " ", "a", "n", "d", " ", "#", "t", "a", "g", "+", "p", "l", "u", "s", "+", "s", "i", "g", "n", "s">>,
      <<"#", "s", "t", "a", "r", "t", "o", "f", "t", "a", "g", "\n", "M", "i", "d", "d", "l", "e", " ", "l", "i", "n", "e", "\n", "#", "e", "n", "d", "o", "f", "t", "a", "g">>,
      <<"T", "h", "i", "s", " ", "#", "t", "a", "g", "!", " ", "i", "s", " ", "a", " ", "#", "g", "o", "o", "d", "t", "a", "g", ":", " ", "a", "n", "d", " ", "t", "h", "a", "t", " ", "#", "t", "a", "g", ",", " ", "a", "n", "d", " ", "a", "n", "o", "t", "h", "e", "r", " ", "#", "t", "a", "g", ".">>,
      <<"C", "o", "m", "p", "l", "e", "x", " ", "#", "t", "a", "g", ".", "w", "i", "t", "h", ".", "d", "o", "t", "s", "!", " ", "a", "n", "d", " ", "#", "t", "a", "g", ":", "w", "i", "t", "h", ":", "c", "o", "l", "o", "n", "s", ".">>,
      <<"M", "u", "l", "t", "i", "p", "l", "e", " ", "#", "t", "a", "g", "1", " ", "#", "t", "a", "g", "2", " ", "#", "t", "a", "g", "3">>,
      <<"T", "h", "i", "s", " ", "c", "o", "n", "t", "e", "n", "t", " ", "h", "a", "s", " ", "n", "o", " ", "t", "a", "g", "s">>,
      <<>> }

\* the tag examples of the tagging RFC, valid and invalid, a '#' before a
\* space and a '#' inside a word
RfcExamples ==
    { <<"#", "p", "r", "o", "j", "e", "c", "t">>,
      <<"#", "w", "o", "r", "k", ".", "i", "m", "p", "o", "r", "t", "a", "n", "t">>,
      <<"#", "p", "r", "i", "o", "r", "i", "t", "y", ":", "h", "i", "g", "h">>,
      <<"#", "t", "a", "g", "-", "w", "i", "t", "h", "-", "h", "y", "p", "h", "e", "n", "s">>,
      <<"#", "t", "a", "g", "_", "w", "i", "t", "h", "_", "u", "n", "d", "e", "r", "s", "c", "o", "r", "e", "s">>,
      <<"#", "t", "a", "g", "+", "p", "l", "u", "s", "+", "s", "i", "g", "n", "s">>,
      <<"#", "p", "r", "o", "j", "e", "c", "t", ":", "s", "u", "b", "t", "a", "s", "k", ":", "d", "e", "t", "a", "i", "l">>,
      <<"#", " ", "s", "p", "a", "c", "e", "-", "a", "f", "t", "e", "r", "-", "h", "a", "s", "h">>,
      <<"#", "t", "a", "g", " ", "w", "i", "t", "h", " ", "s", "p", "a", "c", "e", "s">>,
      <<"#", "t", "a", "g", ".">>,
      <<"#", "t", "a", "g", ":">>,
      <<"#", "t", "a", "g", "!">>,
      <<"#", " ", "l", "e", "a", "d", "i", "n", "g", " ", "s", "p", "a", "c", "e">>,
      <<"w", "o", "r", "d", "#", "n", "o", "t", "t", "a", "g">> }

Texts == BoundedTexts \cup TestContents \cup RfcExamples

InitExtract ==
    /\ meta = [item \in Items |-> NoItem]
    /\ store = [t \in Tags |-> NoFile]
    /\ tagCache = EmptyCache
    /\ last = NoCall
    /\ heap = <<>>
    /\ calls = <<>>
    /\ text \in Texts
    /\ cacheLock = Unlocked

Extract ==
    /\ last = NoCall
    /\ \E tags \in ExtractTagsFrom(text) :
         last' = [op |-> "ExtractTags", content |-> text,
                  matches |-> FindAllStringSubmatch(text), tags |-> tags]
    /\ UNCHANGED <<meta, store, tagCache, heap, calls, text, cacheLock>>

NextExtract == Extract

SpecExtract == InitExtract /\ [][NextExtract]_vars

(***************************************************************************)
(* SpecLock: the operations of one TagService run by concurrent requests.  *)
(* A step is one operation on s.cacheLock, one access to the map s.tagCache *)
(* or one file operation.  A request is a query, which reads the            *)
(* membership of tags, or a call of UpdateItemTags.  A file operation may  *)
(* fail.  The lists are values here: what SpecInterleave shows about       *)
(* shared backing arrays is left out.                                      *)
(***************************************************************************)
NumThreads == 3       \* concurrent requests
NumUpdaters == 2      \* the requests among them that may call UpdateItemTags
MaxReads == 1         \* membership reads of one query

Threads == 1..NumThreads
Updaters == 1..NumUpdaters

\* the membership reads of a query, in order
Queries == UNION {[1..n -> {TagOp("read", t) : t \in SharedTags}] : n \in 1..MaxReads}

\* Lock() returns when nobody holds the lock
CanLock(lock, p) == lock.writer = 0 /\ lock.readers = {}

\* RLock() returns whatever the state of the lock (mutant)
CanRLock_Always(lock, p) == TRUE

\* RLock() returns when no writer holds the lock and none has announced itself
CanRLock(lock, p) == lock.writer = 0 /\ lock.pending = {}

\* the thread is about to take the lock in the mode, for the access
Want(c, mode, what) == [c EXCEPT !.pc = "acquire", !.mode = mode, !.what = what]

\* return err / return nil: the request is over
Return(c, err) ==
    [pc |-> "done", update |-> c.update, id |-> c.id, ops |-> c.ops, err |-> err]

\* the items the concurrent calls are for: identifiers of two lengths
RequestItems ==
    {[id |-> "item1", type |-> "note"], [id |-> "item2", type |-> "bookmark"]}

\* the number of bytes of json.MarshalIndent(itemIDs, "", "  "): the brackets,
\* and for each identifier its characters, the quotes, the indentation and
\* the separator
IDLen(id) == Len(id[1]) + Len(id[2]) + Len(id[3])
RECURSIVE SumIDLen(_)
SumIDLen(itemIDs) ==
    IF itemIDs = <<>> THEN 0 ELSE IDLen(Head(itemIDs)) + SumIDLen(Tail(itemIDs))
Size(itemIDs) == 2 + SumIDLen(itemIDs) + 6 * Len(itemIDs)

\* a file of n bytes that is no JSON text: what a write of fewer bytes than
\* the file holds leaves, the end of the longer text after the shorter one
Torn(n) == [kind |-> "torn", size |-> n]
FileSize(data) ==
    IF data.kind = "json" THEN Size(data.ids)
    ELSE IF data.kind = "torn" THEN data.size ELSE 0

\* f.Write(data) at offset 0 of the file as it is now: a file unlinked since
\* the open stays away from the path, bytes beyond the written ones stay
Overwrite(data, itemIDs) ==
    IF data = NoFile THEN NoFile
    ELSE IF FileSize(data) > Size(itemIDs) THEN Torn(FileSize(data))
    ELSE Marshal(itemIDs)

\* the request goes on to its next membership read or tag operation
NextStep(c) ==
    IF c.i + 1 > Len(c.ops) THEN Return([c EXCEPT !.i = c.i + 1], Nil)
    ELSE Want([c EXCEPT !.i = c.i + 1], "shared", "lookup")

\* a miss on a file that does not exist fills the cache too (mutant)
AfterStat_FillsAlways(c) == Want([c EXCEPT !.ids = <<>>], "exclusive", "fill")

\* what follows getItemIDsByTag with the list c.ids: the query reads on,
\* addItemToTag tests the membership and appends, removeItemFromTag filters
AfterRead(c) ==
    LET op == c.ops[c.i]
    IN  IF op.kind = "read" THEN NextStep(c)
        ELSE IF op.kind = "add"
        THEN IF contains(c.ids, c.id) THEN NextStep(c)
             ELSE [c EXCEPT !.pc = "write", !.ids = Append(c.ids, c.id)]
        ELSE IF Len(c.ids) = 0 THEN NextStep(c)
        ELSE IF Len(Without(c.ids, c.id)) = 0 THEN [c EXCEPT !.pc = "unlink"]
        ELSE [c EXCEPT !.pc = "write", !.ids = Without(c.ids, c.id)]

\* os.Stat says the file does not exist: return []string{}, nil
AfterStat(c) == AfterRead([c EXCEPT !.ids = <<>>])

NewRequest(update, id, ops) ==
    [pc |-> "idle", update |-> update, id |-> id, ops |-> ops, i |-> 0,
     mode |-> "none", what |-> "none", hit |-> FALSE, ids |-> <<>>]

\* the record of a tag when the requests come in: none, one of an item no
\* request is for, one of an item a request is for
InitialRecords ==
    {NoFile, Marshal(<<SeedIDs[1]>>),
     Marshal(<<CombinedID([id |-> "item1", type |-> "note"])>>)}

InitLock ==
    /\ meta = [item \in Items |-> ItemMeta(<<>>)]
    /\ store \in {st \in [Tags -> InitialRecords] :
                     \A t \in Tags \ SharedTags : st[t] = NoFile}
    /\ tagCache = EmptyCache
    /\ last = NoCall
    /\ heap = <<>>
    /\ calls = [p \in Threads |-> Idle]
    /\ text = <<>>
    /\ cacheLock = Unlocked

\* a handler calls a query of the TagService
BeginQuery(p, reads) ==
    /\ calls[p] = Idle
    /\ calls' = [calls EXCEPT ![p] = NextStep(NewRequest(FALSE, <<>>, reads))]
    /\ UNCHANGED <<meta, store, tagCache, last, heap, text, cacheLock>>

\* a handler calls UpdateItemTags: the cache reset comes first
BeginUpdate(p, item, previousTags, currentTags) ==
    /\ p \in Updaters
    /\ calls[p] = Idle
    /\ calls' = [calls EXCEPT ![p] =
                    Want(NewRequest(TRUE, CombinedID(item),
                                    TagOps(previousTags, currentTags)),
                         "exclusive", "reset")]
    /\ UNCHANGED <<meta, store, tagCache, last, heap, text, cacheLock>>

\* Lock() is called while the lock is held: new readers wait from now on
Announce(p) ==
    /\ calls[p].pc = "acquire"
    /\ calls[p].mode = "exclusive"
    /\ p \notin cacheLock.pending
    /\ ~CanLock(cacheLock, p)
    /\ cacheLock' = [cacheLock EXCEPT !.pending = @ \cup {p}]
    /\ UNCHANGED <<meta, store, tagCache, last, heap, calls, text>>

\* s.cacheLock.Lock() / s.cacheLock.RLock() returns
Acquire(p) ==
    LET c == calls[p]
    IN  /\ c.pc = "acquire"
        /\ IF c.mode = "exclusive"
           THEN /\ CanLock(cacheLock, p)
                /\ cacheLock' = [cacheLock EXCEPT !.writer = p, !.pending = @ \ {p}]
           ELSE /\ CanRLock(cacheLock, p)
                /\ cacheLock' = [cacheLock EXCEPT !.readers = @ \cup {p}]
        /\ calls' = [calls EXCEPT ![p] = [c EXCEPT !.pc = "access"]]
        /\ UNCHANGED <<meta, store, tagCache, last, heap, text>>

\* the statement between the lock and the unlock: the map is replaced, looked
\* up, assigned to or deleted from
Access(p) ==
    LET c == calls[p]
        tag == c.ops[c.i].tag
    IN  /\ c.pc = "access"
        /\ IF c.what = "reset"
           THEN /\ tagCache' = EmptyCache
                /\ calls' = [calls EXCEPT ![p] = [c EXCEPT !.pc = "release"]]
           ELSE IF c.what = "lookup"
           THEN /\ calls' = [calls EXCEPT ![p] =
                                [c EXCEPT !.pc = "release",
                                          !.hit = tagCache[tag].found,
                                          !.ids = IF tagCache[tag].found
                                                  THEN tagCache[tag].ids ELSE <<>>]]
                /\ UNCHANGED tagCache
           ELSE IF c.what = "drop"
           THEN /\ tagCache' = [tagCache EXCEPT ![tag] = NotCached]
                /\ calls' = [calls EXCEPT ![p] = [c EXCEPT !.pc = "release"]]
           ELSE /\ tagCache' = [tagCache EXCEPT ![tag] = Cached(c.ids)]
                /\ calls' = [calls EXCEPT ![p] = [c EXCEPT !.pc = "release"]]
        /\ UNCHANGED <<meta, store, last, heap, text, cacheLock>>

\* the read lock is kept when the lookup finds the tag in the cache (mutant)
Release_KeepsLockOnHit(p) ==
    LET c == calls[p]
    IN  /\ c.pc = "release"
        /\ cacheLock' = IF c.mode = "exclusive"
                        THEN [cacheLock EXCEPT !.writer = 0]
                        ELSE IF c.hit THEN cacheLock
                        ELSE [cacheLock EXCEPT !.readers = @ \ {p}]
        /\ calls' = [calls EXCEPT ![p] =
                        IF c.what = "lookup"
                        THEN IF c.hit THEN AfterRead(c) ELSE [c EXCEPT !.pc = "fetch"]
                        ELSE IF c.what = "fill" THEN AfterRead(c)
                        ELSE NextStep(c)]
        /\ UNCHANGED <<meta, store, tagCache, last, heap, text>>

\* s.cacheLock.Unlock() / s.cacheLock.RUnlock(), and where the code goes next
Release(p) ==
    LET c == calls[p]
    IN  /\ c.pc = "release"
        /\ cacheLock' = IF c.mode = "exclusive"
                        THEN [cacheLock EXCEPT !.writer = 0]
                        ELSE [cacheLock EXCEPT !.readers = @ \ {p}]
        /\ calls' = [calls EXCEPT ![p] =
                        IF c.what = "lookup"
                        THEN IF c.hit THEN AfterRead(c) ELSE [c EXCEPT !.pc = "fetch"]
                        ELSE IF c.what = "fill" THEN AfterRead(c)
                        ELSE NextStep(c)]
        /\ UNCHANGED <<meta, store, tagCache, last, heap, text>>

\* getItemIDsByTag after a miss: os.Stat, os.ReadFile, json.Unmarshal
Fetch(p, io) ==
    LET c == calls[p]
        tag == c.ops[c.i].tag
    IN  /\ c.pc = "fetch"
        /\ calls' = [calls EXCEPT ![p] =
                        IF io = "read" THEN Return(c, ErrRead)
                        ELSE IF store[tag] = NoFile THEN AfterStat(c)
                        ELSE IF Unmarshal(store[tag]).err THEN Return(c, ErrParse)
                        ELSE Want([c EXCEPT !.ids = Unmarshal(store[tag]).ids],
                                  "exclusive", "fill")]
        /\ UNCHANGED <<meta, store, tagCache, last, heap, text, cacheLock>>

\* saveTagFile, os.WriteFile: OpenFile(name, O_WRONLY|O_CREATE|O_TRUNC, perm)
\* leaves an empty file
OpenFile(p, io) ==
    LET c == calls[p]
        tag == c.ops[c.i].tag
    IN  /\ c.pc = "write"
        /\ IF io = "write"
           THEN /\ calls' = [calls EXCEPT ![p] = Return(c, ErrWrite)]
                /\ UNCHANGED store
           ELSE /\ calls' = [calls EXCEPT ![p] = [c EXCEPT !.pc = "writing"]]
                /\ store' = [store EXCEPT ![tag] = Truncated]
        /\ UNCHANGED <<meta, tagCache, last, heap, text, cacheLock>>

\* saveTagFile, os.WriteFile: f.Write(data) and f.Close()
WriteFile(p, io) ==
    LET c == calls[p]
        tag == c.ops[c.i].tag
    IN  /\ c.pc = "writing"
        /\ IF io = "partial"
           THEN /\ calls' = [calls EXCEPT ![p] = Return(c, ErrWrite)]
                /\ UNCHANGED store
           ELSE /\ calls' = [calls EXCEPT ![p] = Want(c, "exclusive", "save")]
                /\ store' = [store EXCEPT ![tag] = Overwrite(store[tag], c.ids)]
        /\ UNCHANGED <<meta, tagCache, last, heap, text, cacheLock>>

\* removeItemFromTag with no member left: os.Remove
Remove(p, io) ==
    LET c == calls[p]
        tag == c.ops[c.i].tag
    IN  /\ c.pc = "unlink"
        /\ IF io = "remove"
           THEN /\ calls' = [calls EXCEPT ![p] = Return(c, ErrDelete)]
                /\ UNCHANGED store
           ELSE /\ calls' = [calls EXCEPT ![p] = Want(c, "exclusive", "drop")]
                /\ store' = [store EXCEPT ![tag] = NoFile]
        /\ UNCHANGED <<meta, tagCache, last, heap, text, cacheLock>>

\* the steps of one thread
Step(p) ==
    \/ \E reads \in Queries : BeginQuery(p, reads)
    \/ \E item \in RequestItems, previousTags \in SharedTagLists,
          currentTags \in SharedTagLists :
         BeginUpdate(p, item, previousTags, currentTags)
    \/ Announce(p)
    \/ Acquire(p)
    \/ Access(p)
    \/ Release(p)
    \/ \E io \in {"ok", "read"} : Fetch(p, io)
    \/ \E io \in {"ok", "write"} : OpenFile(p, io)
    \/ \E io \in {"ok", "partial"} : WriteFile(p, io)
    \/ \E io \in {"ok", "remove"} : Remove(p, io)

NextLock ==
    \/ \E p \in Threads, reads \in Queries : BeginQuery(p, reads)
    \/ \E p \in Updaters, item \in RequestItems, previousTags \in SharedTagLists,
          currentTags \in SharedTagLists :
         BeginUpdate(p, item, previousTags, currentTags)
    \/ \E p \in Threads : Announce(p)
    \/ \E p \in Threads : Acquire(p)
    \/ \E p \in Threads : Access(p)
    \/ \E p \in Threads : Release(p)
    \/ \E p \in Threads, io \in {"ok", "read"} : Fetch(p, io)
    \/ \E p \in Threads, io \in {"ok", "write"} : OpenFile(p, io)
    \/ \E p \in Threads, io \in {"ok", "partial"} : WriteFile(p, io)
    \/ \E p \in Threads, io \in {"ok", "remove"} : Remove(p, io)

SpecLock == InitLock /\ [][NextLock]_vars

\* every thread that can take a step takes one in the end
SpecLockFair == SpecLock /\ \A p \in Threads : WF_vars(Step(p))

(***************************************************************************)
(* Properties of the item operations (Spec)                                *)
(***************************************************************************)
IsMember(rec, item) == contains(Members(rec), CombinedID(item))

\* C1: after any sequence of successful item operations run one at a time,
\* '<id>:<type>' is in a tag's membership record if and only if the item
\* exists and the tag is in the item's stored tag set.
C1_IndexAgreesWithMetadata ==
    \A item \in Items, t \in Tags :
        IsMember(store[t], item) <=> (meta[item].exists /\ contains(meta[item].tags, t))

\* An item whose stored tag set is P has had its content updated.
ContentUpdated == last.op \in {"UpdateContent", "updateContent"}

\* C2: update replaces, not merges.  When an item with tag set P is updated to
\* the tag set C of its new content, its stored tag set is exactly C, it is a
\* member of every tag in C and of no tag in P \ C, and each tag in P \ C has
\* exactly one member fewer than before.
C2_UpdateReplaces ==
    ContentUpdated =>
        LET P == Range(last.tags)
            C == TagMap(last.content)
        IN  /\ meta[last.item].exists
            /\ Range(meta[last.item].tags) = C
            /\ NoDup(meta[last.item].tags)
            /\ \A t \in C : IsMember(store[t], last.item)
            /\ \A t \in P \ C :
                 /\ ~IsMember(store[t], last.item)
                 /\ Len(Members(store[t])) = Len(Members(last.pre[t])) - 1

\* C2 witness: an update dropped a tag that another item keeps and either
\* kept or added a tag.
C2_Witness ==
    /\ last.op = "UpdateContent"
    /\ TagMap(last.content) # {}
    /\ \E t \in Range(last.tags) \ TagMap(last.content) :
         /\ Len(Members(last.pre[t])) = 2
         /\ Len(Members(store[t])) = 1

\* The cache of a TagService that read every tag before the observed operation.
CachedBefore ==
    [t \in Tags |-> IF last.pre[t] = NoFile THEN NotCached
                    ELSE Cached(Members(last.pre[t]))]

\* What GetItemsByTag(t) returns now through a TagService with this cache.
ItemsVia(cache, t) ==
    Range(GetItemsByTag([store |-> store, cache |-> cache], meta, t, "ok").items)

\* The handler's TagService, a new one, and one that cached before.
Instances == {tagCache, EmptyCache, CachedBefore}

Reconciled == last.op = "UpdateItemTags"
Succeeded == Reconciled /\ last.err = Nil

\* The items GetItemsByTag(tag) returns in the current state.
TaggedItems(tag) ==
    Range(GetItemsByTag([store |-> store, cache |-> tagCache], meta, tag, "ok").items)

\* C3 as stated: after a successful Reconcile(id, {}, S), GetItemsByTag(t)
\* contains the item for every t in S and, for every tag t' not in S that
\* existed before, GetItemsByTag(t') does not contain the item.
C3_RoundTripAsStated ==
    (Succeeded /\ last.previousTags = <<>>) =>
        /\ \A t \in Range(last.currentTags) : last.item \in TaggedItems(t)
        /\ \A t \in Tags \ Range(last.currentTags) :
             last.pre[t] # NoFile => last.item \notin TaggedItems(t)

\* C3: after a successful Reconcile(id, {}, S), GetItemsByTag(t) contains the
\* item for every t in S; the record of a tag t' not in S is left as it was,
\* so GetItemsByTag(t') contains the item exactly if that record held it.
C3_RoundTrip ==
    (Succeeded /\ last.previousTags = <<>>) =>
        /\ \A t \in Range(last.currentTags) : last.item \in TaggedItems(t)
        /\ \A t \in Tags \ Range(last.currentTags) :
             /\ store[t] = last.pre[t]
             /\ last.item \in TaggedItems(t) <=> IsMember(last.pre[t], last.item)

\* C3 witness: a successful Reconcile(id, {}, S) with S not empty while the
\* item was a member of a tag outside S.
C3_Witness ==
    /\ Succeeded
    /\ last.previousTags = <<>>
    /\ last.currentTags # <<>>
    /\ \E t \in Tags \ Range(last.currentTags) : IsMember(last.pre[t], last.item)

\* The same call made again on the state the first one left.
Again ==
    UpdateItemTags([store |-> store, cache |-> tagCache], last.item,
                   last.currentTags, last.previousTags, NoFailure)

Occurrences(itemIDs, id) == Cardinality({i \in 1..Len(itemIDs) : itemIDs[i] = id})

\* C4: Reconcile is idempotent.  A second call with the same item,
\* previousTags and currentTags leaves every tag record as the first left it;
\* its additions find the item already a member, write nothing and return no
\* error, and the item is in each current tag exactly once.
C4_Idempotent ==
    Succeeded =>
        /\ Again.store = store
        /\ Again.err = Nil
        /\ \A i \in 1..Len(Again.log) :
             Again.log[i].kind = "add" =>
                 /\ Again.log[i].wrote = "none"
                 /\ Again.log[i].err = Nil
        /\ \A i \in 1..Len(last.log) :
             (last.log[i].kind = "add"
                /\ contains(last.log[i].read, CombinedID(last.item))) =>
                 /\ last.log[i].wrote = "none"
                 /\ store[last.log[i].tag] = last.pre[last.log[i].tag]
        /\ \A t \in Range(last.currentTags) :
             Occurrences(Members(Again.store[t]), CombinedID(last.item)) = 1

\* C4 witness: a successful call added the item to one tag and found it
\* already a member of another.
C4_Witness ==
    /\ Succeeded
    /\ \E i, j \in 1..Len(last.log) :
         /\ last.log[i].kind = "add" /\ last.log[i].wrote = "save"
         /\ last.log[j].kind = "add" /\ last.log[j].wrote = "none"
         /\ contains(last.log[j].read, CombinedID(last.item))

\* C5: a tag record never exists with an empty membership; in every state
\* reached by Reconcile calls GetAllTags returns exactly the tags that have
\* at least one member, and a removal of the last member deleted the record
\* and dropped its cache entry.
C5_NoEmptyRecord ==
    /\ GetAllTags(store) = {t \in Tags : Len(Members(store[t])) > 0}
    /\ Reconciled =>
         \A i \in 1..Len(last.log) :
             LET e == last.log[i]
             IN  (e.kind = "remove" /\ e.err = Nil
                    /\ e.read = <<CombinedID(last.item)>>) =>
                     /\ e.wrote = "delete"
                     /\ store[e.tag] = NoFile
                     /\ ~tagCache[e.tag].found

\* The tag operations a call attempted, as the history has them.
Attempted == [i \in 1..Len(last.log) |-> TagOp(last.log[i].kind, last.log[i].tag)]
Planned == TagOps(last.previousTags, last.currentTags)
InBoth == Range(last.previousTags) \cap Range(last.currentTags)

\* C6 as stated: a tag in both previousTags and currentTags is untouched, its
\* record neither read nor written by the call.
C6_InBothUntouchedAsStated ==
    Reconciled =>
        /\ \A i \in 1..Len(last.log) : last.log[i].tag \notin InBoth
        /\ \A t \in InBoth : store[t] = last.pre[t]

\* C6: a tag in both previousTags and currentTags gets no removal but is
\* read by an addition like every other current tag: a successful call leaves
\* its record unchanged if the record held the item and appends the item to
\* it if not.
C6_InBothAddedIfMissing ==
    Reconciled =>
        /\ \A i \in 1..Len(last.log) :
             last.log[i].tag \in InBoth => last.log[i].kind = "add"
        /\ last.err = Nil =>
             \A t \in InBoth :
                 /\ \E i \in 1..Len(last.log) : last.log[i].tag = t
                 /\ IF IsMember(last.pre[t], last.item)
                    THEN store[t] = last.pre[t]
                    ELSE store[t] = Marshal(Append(Members(last.pre[t]),
                                                   CombinedID(last.item)))

\* C6 witness: a successful call wrote the record of a tag in both sets.
C6_Witness ==
    /\ Succeeded
    /\ \E i \in 1..Len(last.log) :
         /\ last.log[i].tag \in InBoth
         /\ last.log[i].wrote = "save"
         /\ last.log[i].read # <<>>

\* C7 as stated: when a tag operation fails, the call still attempts every
\* remaining tag operation and only then returns the error.
C7_NotFailFastAsStated ==
    Reconciled => Attempted = Planned

\* C7: the call is fail-fast.  It returns at the first tag operation that
\* fails: the failed operation is the last one attempted and the records of
\* the remaining operations are left as they were.
C7_FailFast ==
    (Reconciled /\ last.err # Nil) =>
        LET k == Len(last.log)
        IN  /\ k >= 1
            /\ k <= Len(Planned)
            /\ Attempted = SubSeq(Planned, 1, k)
            /\ last.log[k].err # Nil
            /\ \A i \in (k + 1)..Len(Planned) :
                 store[Planned[i].tag] = last.pre[Planned[i].tag]

\* C7 witness: a call failed with tag operations left, one of them an
\* addition that would have written a record.
C7_Witness ==
    /\ Reconciled
    /\ last.err # Nil
    /\ \E i \in (Len(last.log) + 1)..Len(Planned) :
         /\ Planned[i].kind = "add"
         /\ last.pre[Planned[i].tag].kind # "truncated"
         /\ ~IsMember(last.pre[Planned[i].tag], last.item)

\* The record an operation leaves when it succeeds.
Effect(e, id) ==
    IF e.wrote = "delete" THEN NoFile
    ELSE IF e.wrote = "save"
    THEN Marshal(IF e.kind = "add" THEN Append(e.read, id) ELSE Without(e.read, id))
    ELSE e.before

\* C8: Reconcile is not atomic and neither retries nor rolls back.  If the
\* k-th tag operation fails the caller gets that first error, the changes of
\* operations 1..k-1 stay in the store and no tag operation of the call is
\* executed more than once.
C8_NoRollbackNoRetry ==
    Reconciled =>
        /\ \A i, j \in 1..Len(last.log) : Attempted[i] = Attempted[j] => i = j
        /\ Len(last.log) <= Len(Planned)
        /\ \A k \in 1..Len(last.log) :
             last.log[k].err # Nil =>
                 /\ last.err = last.log[k].err
                 /\ \A i \in 1..(k - 1) :
                      /\ last.log[i].err = Nil
                      /\ store[last.log[i].tag]
                           = Effect(last.log[i], CombinedID(last.item))

\* C8 witness: a call failed at its second tag operation after its first
\* had changed a record.
C8_Witness ==
    /\ Reconciled
    /\ last.err # Nil
    /\ Len(last.log) = 2
    /\ last.log[1].wrote \in {"delete", "save"}
    /\ store[last.log[1].tag] # last.pre[last.log[1].tag]
    /\ store[last.log[2].tag] = last.pre[last.log[2].tag]

\* C9: a failed write of a tag's record changes nothing for that tag.  The
\* record found before the write is still in the store, complete and
\* unchanged, the error is returned and the cache entry of the tag is not
\* the list that failed to be written.
C9_FailedWriteChangesNothing ==
    Reconciled =>
        \A i \in 1..Len(last.log) :
            LET e == last.log[i]
            IN  e.err = ErrWrite =>
                    /\ store[e.tag] = e.before
                    /\ store[e.tag] # Truncated
                    /\ last.err = ErrWrite
                    /\ tagCache[e.tag] # Cached(Effect([e EXCEPT !.wrote = "save"],
                                                        CombinedID(last.item)).ids)

\* The record could not be read or parsed.
Unreadable(e) == e.err \in {ErrRead, ErrParse}

\* C10: a tag record that cannot be read or parsed is an error and never an
\* empty membership.  An addition or removal on it returns the error and
\* neither writes nor deletes the record; only a record that does not exist
\* reads as an empty list without error.
C10_UnreadableIsError ==
    Reconciled =>
        \A i \in 1..Len(last.log) :
            LET e == last.log[i]
            IN  /\ e.before = Truncated => Unreadable(e)
                /\ Unreadable(e) =>
                     /\ e.wrote = "none"
                     /\ store[e.tag] = e.before
                     /\ last.err = e.err
                /\ (e.read = <<>> /\ ~Unreadable(e)) => e.before = NoFile

\* C10 witness: an addition met a record that does not parse.
C10_Witness ==
    /\ Reconciled
    /\ \E i \in 1..Len(last.log) :
         /\ last.log[i].kind = "add"
         /\ last.log[i].before = Truncated
         /\ last.log[i].err = ErrParse

(***************************************************************************)
(* Properties of concurrent calls (SpecInterleave)                         *)
(***************************************************************************)
\* C11: in every state reached by any sequence or interleaving of Reconcile
\* calls from a duplicate-free index, no tag's membership record holds the
\* same identifier twice.
C11_NoDuplicateMembers ==
    \A t \in Tags : NoDup(Members(store[t]))

(***************************************************************************)
(* Properties of the queries (SpecQuery)                                   *)
(***************************************************************************)
\* An identifier resolves when it is the '<id>:<type>' of an existing item.
Resolves(id) == \E item \in Items : CombinedID(item) = id /\ meta[item].exists
TheItem(id) == CHOOSE item \in Items : CombinedID(item) = id
ResolvedItems(itemIDs) ==
    LET ok == SelectSeq(itemIDs, Resolves)
    IN  [i \in 1..Len(ok) |-> TheItem(ok[i])]

\* The list a membership read of tag returned to an observed query.
ListRead(tag) ==
    IF last.preCache[tag].found THEN last.preCache[tag].ids ELSE Members(last.pre[tag])

\* C12: GetItemsByTag never fails because of a stale membership entry.  An
\* identifier that does not resolve to a loadable item is skipped: when the
\* record is read, the result is the resolvable members in record order and
\* the error is nil.
C12_StaleEntriesSkipped ==
    last.op = "GetItemsByTag" =>
        /\ (last.io = "ok" /\ last.pre[last.tag] # Truncated) => last.err = Nil
        /\ last.err = Nil => last.items = ResolvedItems(ListRead(last.tag))

\* C12 witness: a read of a record whose first member does not resolve and
\* whose second does.
C12_Witness ==
    /\ last.op = "GetItemsByTag"
    /\ last.err = Nil
    /\ Len(ListRead(last.tag)) = 2
    /\ ~Resolves(ListRead(last.tag)[1])
    /\ Resolves(ListRead(last.tag)[2])
    /\ last.items = <<TheItem(ListRead(last.tag)[2])>>

\* The items of the first tag that resolve and are members of every tag of
\* the list, in the order of the first tag's membership.
InAllTags(tags) ==
    IF tags = <<>> THEN <<>>
    ELSE SelectSeq(ResolvedItems(ListRead(tags[1])),
                   LAMBDA item : \A i \in 1..Len(tags) :
                                     contains(ListRead(tags[i]), CombinedID(item)))

\* The first position from k on at which the running result is empty, the
\* length of the list if there is none.
FirstEmpty(tags, k) ==
    LET empty == {i \in k..Len(tags) : InAllTags(SubSeq(tags, 1, i)) = <<>>}
    IN  IF empty = {} THEN Len(tags) ELSE CHOOSE i \in empty : \A j \in empty : i <= j

QueriedAll == last.op = "GetItemsByMultipleTags"

\* C14 as stated: intersection semantics, empty for an empty list, and the
\* query stops with an empty result as soon as the running result is empty,
\* reading no further tag.
C14_StopsAsSoonAsEmpty ==
    (QueriedAll /\ last.tags # <<>>) =>
        /\ last.err = Nil => last.items = InAllTags(last.tags)
        /\ InAllTags(<<last.tags[1]>>) = <<>> =>
             (last.err = Nil => Len(last.reads) = 1)
        /\ last.plan = NoFailure /\ last.pre[last.tags[1]] # Truncated
             /\ InAllTags(<<last.tags[1]>>) = <<>> => last.err = Nil

\* C14: GetItemsByMultipleTags has intersection semantics.  Without a read
\* error it returns the resolvable items whose identifier is in every listed
\* tag, in the order of the first tag; empty for the empty list; the result
\* of GetItemsByTag for one tag.  It tests for an empty running result after
\* each tag from the second on and then stops: the second tag is read even
\* if the first has no resolvable member, and a read error ends the query.
C14_Intersection ==
    QueriedAll =>
        /\ last.tags = <<>> => last.items = <<>> /\ last.err = Nil /\ last.reads = <<>>
        /\ last.err = Nil => last.items = InAllTags(last.tags)
        /\ (last.err = Nil /\ Len(last.tags) = 1) =>
             last.items = ResolvedItems(ListRead(last.tags[1]))
        /\ last.reads = SubSeq(last.tags, 1, Len(last.reads))
        /\ (last.err = Nil /\ Len(last.tags) >= 2) =>
             Len(last.reads) = FirstEmpty(last.tags, 2)
        /\ last.err # Nil =>
             /\ last.items = <<>>
             /\ Len(last.reads) >= 1
             /\ Len(last.reads) <= FirstEmpty(last.tags, 2)

\* C14 witness: a query over two tags with members returned the one item in
\* both, and not the item in the first only.
C14_Witness ==
    /\ QueriedAll
    /\ last.err = Nil
    /\ Len(last.tags) = 2
    /\ Len(ResolvedItems(ListRead(last.tags[1]))) = 2
    /\ Len(last.items) = 1
    /\ last.items[1] = ResolvedItems(ListRead(last.tags[1]))[2]

StartsWith(name, prefix) ==
    /\ Len(name) >= Len(prefix)
    /\ \A i \in 1..Len(prefix) : name[i] = prefix[i]

Extracted == last # NoCall /\ last.op = "ExtractTags"

\* a '#' at the start of the text or right after a whitespace character
AtBoundary(s, i) == s[i] = "#" /\ (i = 1 \/ s[i - 1] \in {" ", "\t", "\n", "\f", "\r"})
Boundaries(s) == {i \in 1..Len(s) : AtBoundary(s, i)}

\* the grammar as the specification words it: letters, digits and . : - _ +
Allowed(c) == c \in Lower \cup Upper \cup Digits \cup {".", ":", "-", "_", "+"}
RECURSIVE AllowedEnd(_, _)
AllowedEnd(s, i) == IF i <= Len(s) /\ Allowed(s[i]) THEN AllowedEnd(s, i + 1) ELSE i
StatedTag(s, i) == TrimRight(SubSeq(s, i + 1, AllowedEnd(s, i + 1) - 1), {".", ":"})

\* C17 as stated: each extracted tag is the maximal run, right after a '#'
\* that starts a tag, of letters, digits and . : - _ +, less its trailing
\* dots and colons; a run that ends in '-', '_' or '+' keeps that character.
C17_MaximalRunAsStated ==
    Extracted =>
        Range(last.tags) = {StatedTag(text, i) : i \in Boundaries(text)} \ {<<>>}

\* s[a..e] is a tag body: no whitespace and none of , ; ! ?, a dot only
\* between two other characters, a letter, digit or underscore last, and no
\* letter, digit or underscore behind it
Letter(c) == c \in Lower \cup Upper \cup Digits \cup {"_"}
IsBody(s, a, e) ==
    /\ a <= e
    /\ \A j \in a..e : s[j] \notin {" ", "\t", "\n", "\f", "\r", ",", ";", "!", "?"}
    /\ s[a] # "."
    /\ \A j \in a..(e - 1) : s[j] = "." => s[j + 1] # "."
    /\ Letter(s[e])
    /\ e = Len(s) \/ ~Letter(s[e + 1])
BodyEnds(s, i) == {e \in (i + 1)..Len(s) : IsBody(s, i + 1, e)}
LongestBody(s, i) ==
    SubSeq(s, i + 1, CHOOSE e \in BodyEnds(s, i) : \A f \in BodyEnds(s, i) : f <= e)

\* C17 (amended): each extracted tag is the longest run, right after a '#'
\* at the start of the text or after whitespace, of characters other than
\* whitespace and , ; ! ? in which a dot stands only between two other
\* characters, and which ends in a letter, digit or underscore that no
\* letter, digit or underscore follows.  So '/', '#', '-', '+' and ':' occur
\* inside a tag, and a run that ends in '-', '+', '.' or ':' loses them.
C17_TagGrammar ==
    Extracted =>
        Range(last.tags) =
            {LongestBody(text, i) : i \in {j \in Boundaries(text) : BodyEnds(text, j) # {}}}

\* "#a/a-" yields the one tag "a/a"
C17_Witness ==
    /\ Extracted
    /\ text = <<"#", "a", "/", "a", "-">>
    /\ last.tags = << <<"a", "/", "a">> >>

\* tag is what the text holds right after the '#' at position i
StartsAt(tag, s, i) ==
    /\ tag # <<>>
    /\ i + Len(tag) <= Len(s)
    /\ SubSeq(s, i + 1, i + Len(tag)) = tag

\* the k-th position of a set of positions, from the left
Kth(positions, k) ==
    CHOOSE i \in positions : Cardinality({j \in positions : j < i}) = k - 1

\* the matches are the positions, one match each, in the order of the text
MatchesStartAt(positions) ==
    /\ Len(last.matches) = Cardinality(positions)
    /\ \A k \in 1..Len(last.matches) :
           StartsAt(last.matches[k], text, Kth(positions, k))

\* C18 as stated: a tag starts only at a '#' at the start of the text or right
\* after whitespace, and every such '#' followed by a non-empty body of
\* letters, digits and . : - _ + (less its trailing dots and colons) yields one.
C18_EveryValidBodyAsStated ==
    Extracted =>
        MatchesStartAt({i \in Boundaries(text) : StatedTag(text, i) # <<>>})

\* the run after the '#' at position i reaches a letter, digit or underscore:
\* over characters other than whitespace and , ; ! ?, no dot first, no two
\* dots in a row
RunHasLetter(s, i) ==
    \E e \in (i + 1)..Len(s) :
        /\ Letter(s[e])
        /\ s[i + 1] # "."
        /\ \A j \in (i + 1)..e :
               s[j] \notin {" ", "\t", "\n", "\f", "\r", ",", ";", "!", "?"}
        /\ \A j \in (i + 1)..(e - 1) : s[j] = "." => s[j + 1] # "."

\* C18 (amended): a tag starts only at a '#' at the start of the text or right
\* after whitespace, never at a mid-word '#'; every such '#' whose run holds a
\* letter, digit or underscore yields exactly one match, in text order, also
\* when one whitespace separates two tags; a '#' whose run holds none ('#-',
\* '#+', '#:') or starts with a dot yields no tag.
C18_BoundaryRule ==
    Extracted =>
        MatchesStartAt({i \in Boundaries(text) : RunHasLetter(text, i)})

\* "#a #A": two tags one space apart, both extracted
C18_Witness ==
    /\ Extracted
    /\ text = <<"#", "a", " ", "#", "A">>
    /\ last.matches = << <<"a">>, <<"A">> >>

\* the worked cases: the input and the tags it is to yield
WorkedCases ==
    {
       [input |-> <<"#", "p", "r", "o", "j", "e", "c", "t">>,
        tags |-> {<<"p", "r", "o", "j", "e", "c", "t">>}],
       [input |-> <<"#", "w", "o", "r", "k", ".", "i", "m", "p", "o", "r", "t", "a", "n", "t">>,
        tags |-> {<<"w", "o", "r", "k", ".", "i", "m", "p", "o", "r", "t", "a", "n", "t">>}],
       [input |-> <<"#", "p", "r", "i", "o", "r", "i", "t", "y", ":", "h", "i", "g", "h">>,
        tags |-> {<<"p", "r", "i", "o", "r", "i", "t", "y", ":", "h", "i", "g", "h">>}],
       [input |-> <<"#", "t", "a", "g", "-", "w", "i", "t", "h", "-", "h", "y", "p", "h", "e", "n", "s">>,
        tags |-> {<<"t", "a", "g", "-", "w", "i", "t", "h", "-", "h", "y", "p", "h", "e", "n", "s">>}],
       [input |-> <<"#", "t", "a", "g", "_", "w", "i", "t", "h", "_", "u", "n", "d", "e", "r", "s", "c", "o", "r", "e", "s">>,
        tags |-> {<<"t", "a", "g", "_", "w", "i", "t", "h", "_", "u", "n", "d", "e", "r", "s", "c", "o", "r", "e", "s">>}],
       [input |-> <<"#", "t", "a", "g", "+", "p", "l", "u", "s", "+", "s", "i", "g", "n", "s">>,
        tags |-> {<<"t", "a", "g", "+", "p", "l", "u", "s", "+", "s", "i", "g", "n", "s">>}],
       [input |-> <<"#", "p", "r", "o", "j", "e", "c", "t", ":", "s", "u", "b", "t", "a", "s", "k", ":", "d", "e", "t", "a", "i", "l">>,
        tags |-> {<<"p", "r", "o", "j", "e", "c", "t", ":", "s", "u", "b", "t", "a", "s", "k", ":", "d", "e", "t", "a", "i", "l">>}],
       [input |-> <<"#", "t", "a", "g", ".">>,
        tags |-> {<<"t", "a", "g">>}],
       [input |-> <<"#", "t", "a", "g", ":">>,
        tags |-> {<<"t", "a", "g">>}],
       [input |-> <<"#", "t", "a", "g", "!">>,
        tags |-> {<<"t", "a", "g">>}],
       [input |-> <<"#", " ", "l", "e", "a", "d", "i", "n", "g", " ", "s", "p", "a", "c", "e">>,
        tags |-> {}],
       [input |-> <<"w", "o", "r", "d", "#", "n", "o", "t", "t", "a", "g">>,
        tags |-> {}]
    }

\* C19: '#project', '#work.important', '#priority:high', '#tag-with-hyphens',
\* '#tag_with_underscores', '#tag+plus+signs' and '#project:subtask:detail'
\* yield the text after the '#'; '#tag.', '#tag:' and '#tag!' yield 'tag';
\* '# leading space' and 'word#nottag' yield no tag.
C19_WorkedCases ==
    Extracted =>
        \A case \in WorkedCases : text = case.input => Range(last.tags) = case.tags

\* '#tag!' has been extracted to the one tag 'tag'
C19_Witness ==
    /\ Extracted
    /\ text = <<"#", "t", "a", "g", "!">>
    /\ last.tags = << <<"t", "a", "g">> >>

\* C20: the result holds no tag twice, also when the occurrences differ only
\* in the punctuation that follows them; every match is in it with its case
\* as written, so tags that differ only in case are distinct; a text without
\* a '#' (the empty text too) yields the empty result.
C20_SetSemantics ==
    Extracted =>
        /\ NoDup(last.tags)
        /\ Range(last.tags) = Range(last.matches)
        /\ (\A i \in 1..Len(text) : text[i] # "#") => last.tags = <<>>

\* the test content with '#tag!', '#tag,' and '#tag.' holds 'tag' once
C20_Witness ==
    /\ Extracted
    /\ text = <<"T","h","i","s"," ","#","t","a","g","!"," ","i","s"," ","a"," ","#","g","o","o","d","t","a","g",":"," ","a","n","d"," ","t","h","a","t"," ","#","t","a","g",","," ","a","n","d"," ","a","n","o","t","h","e","r"," ","#","t","a","g",".">>
    /\ Len(last.matches) = 4
    /\ Range(last.tags) = {<<"t", "a", "g">>, <<"g", "o", "o", "d", "t", "a", "g">>}
    /\ Len(last.tags) = 2

(***************************************************************************)
(* Order of the tag operations of one call (SpecReconcile)                 *)
(***************************************************************************)
\* C21: within one Reconcile call every removal is performed before any
\* addition: in the order the call works on the tag files, no addition comes
\* before a removal, and the removals are of the previous tags that are not
\* current.
C21_RemovalsBeforeAdditions ==
    Reconciled =>
        /\ \A i, j \in 1..Len(last.log) :
               (last.log[i].kind = "add" /\ last.log[j].kind = "remove") => j < i
        /\ \A i \in 1..Len(last.log) :
               last.log[i].kind = "remove" =>
                   last.log[i].tag \in Range(last.previousTags) \ Range(last.currentTags)

\* a call that took the item out of one record and then put it into another
C21_Witness ==
    /\ Reconciled
    /\ \E i, j \in 1..Len(last.log) :
           /\ i < j
           /\ last.log[i].kind = "remove" /\ last.log[i].wrote \in {"save", "delete"}
           /\ last.log[j].kind = "add" /\ last.log[j].wrote = "save"

(***************************************************************************)
(* The cache after a call (SpecReconcile)                                  *)
(***************************************************************************)
\* the tags the observed call worked on, and what it last did to a tag's file
TouchedTags == {last.log[i].tag : i \in 1..Len(last.log)}
LastWrote(t) ==
    last.log[CHOOSE i \in 1..Len(last.log) :
                 /\ last.log[i].tag = t
                 /\ \A j \in (i + 1)..Len(last.log) : last.log[j].tag # t].wrote
Wrote == \E i \in 1..Len(last.log) : last.log[i].wrote \in {"save", "delete"}

\* C22 as stated: on any successful index write the entire cache is
\* invalidated: right after the write the cache holds no entry for any tag.
C22_NoEntryAfterWrite ==
    (Reconciled /\ Wrote) => tagCache = EmptyCache

\* C22 (amended): the whole cache is dropped when a Reconcile call is entered,
\* whatever the call then does: after the call no tag that the call did not
\* work on has an entry.  A write does not invalidate: the list a save wrote
\* is the tag's entry after the call, and a removal that deleted the file
\* leaves the tag without entry.
C22_CacheResetOnEntry ==
    Reconciled =>
        /\ \A t \in Tags \ TouchedTags : tagCache[t] = NotCached
        /\ \A t \in TouchedTags :
               /\ LastWrote(t) = "save" =>
                      tagCache[t] = Cached(Members(store[t])) /\ store[t] # NoFile
               /\ LastWrote(t) = "delete" => tagCache[t] = NotCached

\* a call that saved one tag's record while another tag, which the call did
\* not work on, was cached: the entry of the other tag is gone, the written
\* tag has one
C22_Witness ==
    /\ Reconciled
    /\ \E t \in TouchedTags, u \in Tags \ TouchedTags :
           /\ LastWrote(t) = "save"
           /\ last.preCache[u].found
           /\ tagCache[t].found
           /\ ~tagCache[u].found

(***************************************************************************)
(* Properties of the cache lock (SpecLock)                                 *)
(***************************************************************************)
\* the thread is between a lock call that returned and its unlock call
InCriticalSection(p) == calls[p].pc \in {"access", "release"}
\* the thread is at a statement that reads the map / that changes it
ReadsMap(p) == calls[p].pc = "access" /\ calls[p].what = "lookup"
ChangesMap(p) == calls[p].pc = "access" /\ calls[p].what # "lookup"

AtLock(p, mode) ==
    calls[p].pc \in {"acquire", "access", "release"} /\ calls[p].mode = mode

\* C24 as stated: the tag reads take the cache lock in shared mode only;
\* exclusive access is taken only by a write triggered by Reconcile.
C24_ReadsSharedOnly ==
    \A p \in Threads : AtLock(p, "exclusive") => calls[p].update

\* C24 (amended): a membership read looks the tag up under the shared lock;
\* when the lookup misses and the tag's file is found and decoded, the read
\* takes the lock exclusively to store the list in the cache.  A hit and a
\* missing file take no exclusive lock.  (No record is an empty list here.)
C24_ReadsLockExclusivelyToFill ==
    \A p \in Threads :
        /\ (AtLock(p, "shared") \/ AtLock(p, "exclusive")) =>
               (calls[p].mode = "shared" <=> calls[p].what = "lookup")
        /\ (AtLock(p, "exclusive") /\ ~calls[p].update) => calls[p].what = "fill"
        /\ (AtLock(p, "exclusive") /\ calls[p].what = "fill") =>
               ~calls[p].hit /\ calls[p].ids # <<>>

\* a query holds the lock exclusively to store what it read while another
\* query waits to look up
C24_Witness ==
    \E p, q \in Threads :
        /\ cacheLock.writer = p /\ calls[p].what = "fill" /\ ~calls[p].update
        /\ calls[q].pc = "acquire" /\ calls[q].mode = "shared" /\ ~calls[q].update

(***************************************************************************)
(* Two calls of UpdateItemTags racing on one tag (SpecLock)                *)
(***************************************************************************)
\* the call of thread p was the one tag operation and returned nil
Returned(p, kind, t) ==
    /\ calls[p].pc = "done"
    /\ calls[p].update
    /\ calls[p].err = Nil
    /\ calls[p].ops = <<TagOp(kind, t)>>

\* two calls have finished: both added, each its own item, or one removed
\* and the other added
RacedOn(t) ==
    \E p, q \in Updaters :
        /\ p # q
        /\ calls[p].pc = "done" /\ calls[q].pc = "done"
        /\ calls[p].id # calls[q].id
        /\ Returned(q, "add", t)
        /\ Returned(p, "add", t) \/ Returned(p, "remove", t)

\* every identifier a record of the model can be drawn from
KnownIDs == {SeedIDs[1]} \cup {CombinedID(item) : item \in RequestItems}

\* C25: when two Reconcile calls that add different items to the same tag, or
\* one that removes and one that adds, interleave and both return success,
\* the tag's record afterwards is a well-formed duplicate-free list drawn
\* from the old members and the added items (it may omit an added item).
C25_WellFormedAfterRace ==
    \A t \in SharedTags :
        RacedOn(t) =>
            /\ store[t].kind \in {"json", "nofile"}
            /\ NoDup(Members(store[t]))
            /\ Range(Members(store[t])) \subseteq KnownIDs

\* Thread p holds the cache lock, in either mode.
Holds(p) == cacheLock.writer = p \/ p \in cacheLock.readers

\* The lock is held only around the one map statement it guards: not while a
\* thread waits for the lock, not across os.Stat, os.ReadFile, os.WriteFile
\* or os.Remove, and not after the call has returned, with or without an error.
LockHeldOnlyAroundCache ==
    \A p \in Threads : Holds(p) => calls[p].pc \in {"access", "release"}

AllReturned == \A p \in Threads : calls[p].pc = "done"

\* C26: no tag operation blocks indefinitely.  With concurrent readers and
\* UpdateItemTags calls under fair scheduling the cache lock is released on
\* every path (cache hits and error returns included), is never held across a
\* store access and is never acquired while already held, and every
\* operation eventually returns: no deadlock is reachable.
C26_EveryOperationReturns == [](LockHeldOnlyAroundCache) /\ <>AllReturned

\* Two UpdateItemTags calls and a reader have all returned, one of them with
\* an error, and nobody holds or waits for the lock.
C26_Witness ==
    /\ AllReturned
    /\ cacheLock = Unlocked
    /\ \E p \in Threads : calls[p].err # Nil
    /\ \A p \in Updaters : calls[p].update
    /\ \E p \in Threads : ~calls[p].update

\* Repository.SaveItem has been called with item.Tags = last.tags.
Saved == last.op = "SaveItem"

\* The tags the call saves: those of the content only when the item has none
\* and there is content.
SavedTags ==
    IF Len(last.tags) = 0 /\ last.content # <<>> THEN TagMap(last.content)
    ELSE Range(last.tags)

\* C27: Repository.SaveItem preserves tags that are already set.  The tag
\* set is derived from the content only when the item's tag set is empty and
\* the content is not; when the item has tags, the saved tag list is that
\* list and the item is a member of each of its tags, whatever hashtags the
\* content contains: the item joins no other tag, and no membership of the
\* item is removed by the call.
C27_SaveItemPreservesTags ==
    Saved =>
        /\ meta[last.item].exists
        /\ Range(meta[last.item].tags) = SavedTags
        /\ Len(last.tags) > 0 => meta[last.item].tags = last.tags
        /\ \A t \in SavedTags : IsMember(store[t], last.item)
        /\ \A t \in Tags \ SavedTags :
               IsMember(store[t], last.item) <=> IsMember(last.pre[t], last.item)
        /\ \A t \in Tags :
               IsMember(last.pre[t], last.item) => IsMember(store[t], last.item)

\* An item with a tag set is saved with content that holds the hashtag of
\* another tag, of which the item was a member before the call.
C27_Witness ==
    /\ Saved
    /\ Len(last.tags) > 0
    /\ \E t \in TagMap(last.content) \ Range(last.tags) :
          IsMember(last.pre[t], last.item)

\* No operation is in progress, and those that ran returned without error.
AtRest ==
    \A p \in Threads :
        calls[p].pc \in {"idle", "done"} /\ (calls[p].pc = "done" => calls[p].err = Nil)

\* The cache entry of tag t, if there is one, is the list in t's file.
Mirrors(t) ==
    tagCache[t].found =>
        store[t].kind = "json" /\ tagCache[t].ids = Members(store[t])

\* C28: cache coherence of one TagService under concurrency.  Whenever no
\* operation is in progress, every entry of the cache equals the tag's
\* current record in the store; a read of a tag that overlaps an
\* UpdateItemTags call writing it leaves no stale entry.
C28_CacheCoherentAtRest == AtRest => \A t \in SharedTags : Mirrors(t)

\* The handler's TagService has read a tag's membership right after a
\* Repository.SaveItem or Repository.UpdateContent call returned.
ReadAfterSave == last.op = "listItemsByTag"

\* C29: reads reflect completed saves across TagService instances.  A
\* membership read through the handler's long-lived TagService issued after
\* Repository.SaveItem or Repository.UpdateContent has completed returns the
\* record as that save stored it, never a list cached before the save.
C29_ReadReturnsStoredRecord ==
    ReadAfterSave => last.ids = Members(store[last.tag])

\* The write of tag t's file failed after the file was opened (see C9).
CutShort(t) ==
    \E i \in 1..Len(last.log) : last.log[i].tag = t /\ last.log[i].wrote = "partial"

\* The call's effect on tag t's record, X being the item's identifier: the
\* other identifiers and their order are the same, a new member is at the
\* end, and a record X stays in is the same record.
FrameOf(t, X) ==
    LET before == Members(last.pre[t])
        after == Members(store[t])
    IN  /\ Without(after, X) = Without(before, X)
        /\ ~contains(before, X) /\ contains(after, X) => after = Append(before, X)
        /\ contains(before, X) /\ contains(after, X) => store[t] = last.pre[t]

====
